---- MODULE Spec2Model ----
(***************************************************************************)
(* RTTrail backend: bearer-token authorization (token verifier, scope      *)
(* gate, account-type gate), password login, and the registration /        *)
(* activation life cycle of accounts.                                      *)
(*                                                                         *)
(* Strings that the code splits or searches are sequences of one-character *)
(* strings.  Optional values (None in the source) are sets with at most    *)
(* one element.  Timestamps are integers.                                  *)
(***************************************************************************)
EXTENDS Integers, Sequences, FiniteSets, TLC

VARIABLES users, unconfirmed, now, nextId, issued, activated, registering,
          strict_schema, inflight, recover_requests,
          migration_codes, archive, SessionLocal, sessions, database,
          call, resp

vars == <<users, unconfirmed, now, nextId, issued, activated, registering,
          strict_schema, inflight, recover_requests,
          migration_codes, archive, SessionLocal, sessions, database,
          call, resp>>

(***************************************************************************)
(* Bounds of the model.                                                    *)
(***************************************************************************)
MaxScopeLen == 3
MaxPolicyLen == 2
MaxScopes == 3
MaxTime == 3
MaxRows == 2
MaxTokens == 2
MaxInFlight == 1
MaxRequests == 2

(***************************************************************************)
(* Configuration values (Settings) and enumerations.                       *)
(***************************************************************************)
ACCESS_TOKEN_EXPIRE == 2
USER_ACTIVATION_TOKEN_EXPIRE == 1
EMAIL_RESET_TOKEN_EXPIRE == 1
PASSWORD_RESET_TOKEN_EXPIRE == 2

AccountType == {"user", "moderator", "admin"}

(* The database as update_db_tables sees it: the schema each table of the
   models has and the revision recorded in alembic_version, if any.  A
   table's schema is "none" when the table does not exist, "old" for the
   schema of an earlier revision, "models" for the schema the models
   declare (password_hash NOT NULL) and "migrated" for a schema at the head
   revision that is not the models' (password_hash nullable). *)
ModelTables == {"user", "user_unconfirmed"}

Database(tables, revision) == [tables |-> tables, revision |-> revision]

(* Whether the pending-row table of the database enforces the NOT NULL of
   models_users.UserUnconfirmed.password_hash. *)
Strict(db) == db.tables["user_unconfirmed"] = "models"

(* The database of a running deployment: every table in place, stamped
   head. *)
DeployedDatabase(strict) ==
    Database([t \in ModelTables |-> IF strict THEN "models" ELSE "migrated"],
             {"head"})

ScopeType == [API |-> <<"A", "P", "I">>, auth |-> <<"a", "u", "t", "h">>]

SECRET_KEY == "SECRET_KEY"

FIRST_SUPERUSER == <<"r", "o", "o", "t">>

FIRST_SUPERUSER_PASSWORD == <<"p", "w", "0">>

SUPERADMIN_ID == 0

(***************************************************************************)
(* Generic helpers on sequences.                                           *)
(***************************************************************************)
SeqsUpTo(S, n) == UNION {[1..k -> S] : k \in 0..n}

Contains(seq, x) == \E i \in 1..Len(seq) : seq[i] = x

RECURSIVE Concat(_)
Concat(ss) == IF ss = <<>> THEN <<>> ELSE Head(ss) \o Concat(Tail(ss))

(***************************************************************************)
(* str.split(" "): cut at every single space; consecutive, leading and     *)
(* trailing spaces produce empty items, and "" splits to [""].             *)
(***************************************************************************)
RECURSIVE SplitFrom(_, _, _)
SplitFrom(s, i, cur) ==
    IF i > Len(s) THEN <<cur>>
    ELSE IF s[i] = " " THEN <<cur>> \o SplitFrom(s, i + 1, <<>>)
    ELSE SplitFrom(s, i + 1, Append(cur, s[i]))

Split(s) == SplitFrom(s, 1, <<>>)

(* Python's `sub in s` for two strings: s contains sub as a substring. *)
IsSubstring(sub, s) ==
    \E i \in 0..(Len(s) - Len(sub)) : SubSeq(s, i + 1, i + Len(sub)) = sub

(***************************************************************************)
(* str.lower(), str.strip() and the validators built on them              *)
(* (utils/validators.py).                                                  *)
(***************************************************************************)
UpperCase ==
    <<"A", "B", "C", "D", "E", "F", "G", "H", "I", "J", "K", "L", "M",
      "N", "O", "P", "Q", "R", "S", "T", "U", "V", "W", "X", "Y", "Z">>

LowerCase ==
    <<"a", "b", "c", "d", "e", "f", "g", "h", "i", "j", "k", "l", "m",
      "n", "o", "p", "q", "r", "s", "t", "u", "v", "w", "x", "y", "z">>

(* A character is a string of one character when it is a printable
   character of ASCII or one of its control characters, and the name of its
   code point, "U+2003", when it lies beyond ASCII; the grave accent, which
   no string of a module can hold, is "U+0060".  chr(n) is the character of
   code point n, for the letters of ASCII, the grave accent and the code
   points from 128 on, the ones the tables below hold. *)
chr(n) ==
    LET HexDigits == <<"0", "1", "2", "3", "4", "5", "6", "7",
                       "8", "9", "A", "B", "C", "D", "E", "F">>
        RECURSIVE hex(_, _)
        hex(m, width) ==
            IF m = 0 /\ width <= 0 THEN ""
            ELSE hex(m \div 16, width - 1) \o HexDigits[(m % 16) + 1]
    IN  IF n \in 65..90 THEN UpperCase[n - 64]
        ELSE IF n \in 97..122 THEN LowerCase[n - 96]
        ELSE "U+" \o hex(n, 4)

(* The characters str.strip() removes, those with str.isspace(), 29 in
   all: the six of string.whitespace (space, \t, \n, vertical tab U+000B,
   \f, \r), the separators U+001C to U+001F (the control characters
   without an escape are written as the character itself, in this order),
   and beyond ASCII U+0085, U+00A0, U+1680, U+2000 to U+200A, U+2028,
   U+2029, U+202F, U+205F and U+3000. *)
Whitespace ==
    {" ", "\t", "\n", "", "\f", "\r", "", "", "", ""}
        \cup {chr(n) : n \in {133, 160, 5760, 8232, 8233, 8239, 8287, 12288}}
        \cup {chr(n) : n \in 8192..8202}

(* str.lower() of one character beyond ASCII, where it differs from the
   character (the lowercase mapping of the Unicode database the
   interpreter carries, version 14.0): <<first, last, step, delta>> stands
   for the code points first, first + step, ..., last, each lowered to the
   code point delta further.  U+0130 alone lowers to two characters.  The
   capital sigma U+03A3 is here with the small sigma, and lower decides
   between that and the final one. *)
ToLowerFull ==
    LET ranges == {
        <<192, 214, 1, 32>>, <<216, 222, 1, 32>>, <<256, 302, 2, 1>>,
        <<306, 310, 2, 1>>, <<313, 327, 2, 1>>, <<330, 374, 2, 1>>,
        <<376, 376, 1, -121>>, <<377, 381, 2, 1>>, <<385, 385, 1, 210>>,
        <<386, 388, 2, 1>>, <<390, 390, 1, 206>>, <<391, 391, 1, 1>>,
        <<393, 394, 1, 205>>, <<395, 395, 1, 1>>, <<398, 398, 1, 79>>,
        <<399, 399, 1, 202>>, <<400, 400, 1, 203>>, <<401, 401, 1, 1>>,
        <<403, 403, 1, 205>>, <<404, 404, 1, 207>>, <<406, 406, 1, 211>>,
        <<407, 407, 1, 209>>, <<408, 408, 1, 1>>, <<412, 412, 1, 211>>,
        <<413, 413, 1, 213>>, <<415, 415, 1, 214>>, <<416, 420, 2, 1>>,
        <<422, 422, 1, 218>>, <<423, 423, 1, 1>>, <<425, 425, 1, 218>>,
        <<428, 428, 1, 1>>, <<430, 430, 1, 218>>, <<431, 431, 1, 1>>,
        <<433, 434, 1, 217>>, <<435, 437, 2, 1>>, <<439, 439, 1, 219>>,
        <<440, 440, 1, 1>>, <<444, 444, 1, 1>>, <<452, 452, 1, 2>>,
        <<453, 453, 1, 1>>, <<455, 455, 1, 2>>, <<456, 456, 1, 1>>,
        <<458, 458, 1, 2>>, <<459, 475, 2, 1>>, <<478, 494, 2, 1>>,
        <<497, 497, 1, 2>>, <<498, 500, 2, 1>>, <<502, 502, 1, -97>>,
        <<503, 503, 1, -56>>, <<504, 542, 2, 1>>, <<544, 544, 1, -130>>,
        <<546, 562, 2, 1>>, <<570, 570, 1, 10795>>, <<571, 571, 1, 1>>,
        <<573, 573, 1, -163>>, <<574, 574, 1, 10792>>, <<577, 577, 1, 1>>,
        <<579, 579, 1, -195>>, <<580, 580, 1, 69>>, <<581, 581, 1, 71>>,
        <<582, 590, 2, 1>>, <<880, 882, 2, 1>>, <<886, 886, 1, 1>>,
        <<895, 895, 1, 116>>, <<902, 902, 1, 38>>, <<904, 906, 1, 37>>,
        <<908, 908, 1, 64>>, <<910, 911, 1, 63>>, <<913, 929, 1, 32>>,
        <<931, 939, 1, 32>>, <<975, 975, 1, 8>>, <<984, 1006, 2, 1>>,
        <<1012, 1012, 1, -60>>, <<1015, 1015, 1, 1>>, <<1017, 1017, 1, -7>>,
        <<1018, 1018, 1, 1>>, <<1021, 1023, 1, -130>>,
        <<1024, 1039, 1, 80>>, <<1040, 1071, 1, 32>>, <<1120, 1152, 2, 1>>,
        <<1162, 1214, 2, 1>>, <<1216, 1216, 1, 15>>, <<1217, 1229, 2, 1>>,
        <<1232, 1326, 2, 1>>, <<1329, 1366, 1, 48>>,
        <<4256, 4293, 1, 7264>>, <<4295, 4295, 1, 7264>>,
        <<4301, 4301, 1, 7264>>, <<5024, 5103, 1, 38864>>,
        <<5104, 5109, 1, 8>>, <<7312, 7354, 1, -3008>>,
        <<7357, 7359, 1, -3008>>, <<7680, 7828, 2, 1>>,
        <<7838, 7838, 1, -7615>>, <<7840, 7934, 2, 1>>,
        <<7944, 7951, 1, -8>>, <<7960, 7965, 1, -8>>, <<7976, 7983, 1, -8>>,
        <<7992, 7999, 1, -8>>, <<8008, 8013, 1, -8>>, <<8025, 8031, 2, -8>>,
        <<8040, 8047, 1, -8>>, <<8072, 8079, 1, -8>>, <<8088, 8095, 1, -8>>,
        <<8104, 8111, 1, -8>>, <<8120, 8121, 1, -8>>,
        <<8122, 8123, 1, -74>>, <<8124, 8124, 1, -9>>,
        <<8136, 8139, 1, -86>>, <<8140, 8140, 1, -9>>,
        <<8152, 8153, 1, -8>>, <<8154, 8155, 1, -100>>,
        <<8168, 8169, 1, -8>>, <<8170, 8171, 1, -112>>,
        <<8172, 8172, 1, -7>>, <<8184, 8185, 1, -128>>,
        <<8186, 8187, 1, -126>>, <<8188, 8188, 1, -9>>,
        <<8486, 8486, 1, -7517>>, <<8490, 8490, 1, -8383>>,
        <<8491, 8491, 1, -8262>>, <<8498, 8498, 1, 28>>,
        <<8544, 8559, 1, 16>>, <<8579, 8579, 1, 1>>, <<9398, 9423, 1, 26>>,
        <<11264, 11311, 1, 48>>, <<11360, 11360, 1, 1>>,
        <<11362, 11362, 1, -10743>>, <<11363, 11363, 1, -3814>>,
        <<11364, 11364, 1, -10727>>, <<11367, 11371, 2, 1>>,
        <<11373, 11373, 1, -10780>>, <<11374, 11374, 1, -10749>>,
        <<11375, 11375, 1, -10783>>, <<11376, 11376, 1, -10782>>,
        <<11378, 11378, 1, 1>>, <<11381, 11381, 1, 1>>,
        <<11390, 11391, 1, -10815>>, <<11392, 11490, 2, 1>>,
        <<11499, 11501, 2, 1>>, <<11506, 11506, 1, 1>>,
        <<42560, 42604, 2, 1>>, <<42624, 42650, 2, 1>>,
        <<42786, 42798, 2, 1>>, <<42802, 42862, 2, 1>>,
        <<42873, 42875, 2, 1>>, <<42877, 42877, 1, -35332>>,
        <<42878, 42886, 2, 1>>, <<42891, 42891, 1, 1>>,
        <<42893, 42893, 1, -42280>>, <<42896, 42898, 2, 1>>,
        <<42902, 42920, 2, 1>>, <<42922, 42922, 1, -42308>>,
        <<42923, 42923, 1, -42319>>, <<42924, 42924, 1, -42315>>,
        <<42925, 42925, 1, -42305>>, <<42926, 42926, 1, -42308>>,
        <<42928, 42928, 1, -42258>>, <<42929, 42929, 1, -42282>>,
        <<42930, 42930, 1, -42261>>, <<42931, 42931, 1, 928>>,
        <<42932, 42946, 2, 1>>, <<42948, 42948, 1, -48>>,
        <<42949, 42949, 1, -42307>>, <<42950, 42950, 1, -35384>>,
        <<42951, 42953, 2, 1>>, <<42960, 42960, 1, 1>>,
        <<42966, 42968, 2, 1>>, <<42997, 42997, 1, 1>>,
        <<65313, 65338, 1, 32>>, <<66560, 66599, 1, 40>>,
        <<66736, 66771, 1, 40>>, <<66928, 66938, 1, 39>>,
        <<66940, 66954, 1, 39>>, <<66956, 66962, 1, 39>>,
        <<66964, 66965, 1, 39>>, <<68736, 68786, 1, 64>>,
        <<71840, 71871, 1, 32>>, <<93760, 93791, 1, 32>>,
        <<125184, 125217, 1, 34>>}
        pairs ==
            UNION {{<<chr(n), <<chr(n + r[4])>>>> :
                        n \in {m \in r[1]..r[2] : (m - r[1]) % r[3] = 0}} :
                   r \in ranges}
                \cup {<<chr(304), <<"i", chr(775)>>>>}
    IN  [c \in {p[1] : p \in pairs} |->
            (CHOOSE p \in pairs : p[1] = c)[2]]

(* The characters the final-sigma rule of str.lower() skips
   (Case_Ignorable), as ranges <<first, last>> of code points. *)
CaseIgnorable ==
    LET ranges == {
        <<168, 168>>, <<173, 173>>, <<175, 175>>, <<180, 180>>,
        <<183, 184>>, <<688, 879>>, <<884, 885>>, <<890, 890>>,
        <<900, 901>>, <<903, 903>>, <<1155, 1161>>, <<1369, 1369>>,
        <<1375, 1375>>, <<1425, 1469>>, <<1471, 1471>>, <<1473, 1474>>,
        <<1476, 1477>>, <<1479, 1479>>, <<1524, 1524>>, <<1536, 1541>>,
        <<1552, 1562>>, <<1564, 1564>>, <<1600, 1600>>, <<1611, 1631>>,
        <<1648, 1648>>, <<1750, 1757>>, <<1759, 1768>>, <<1770, 1773>>,
        <<1807, 1807>>, <<1809, 1809>>, <<1840, 1866>>, <<1958, 1968>>,
        <<2027, 2037>>, <<2042, 2042>>, <<2045, 2045>>, <<2070, 2093>>,
        <<2137, 2139>>, <<2184, 2184>>, <<2192, 2193>>, <<2200, 2207>>,
        <<2249, 2306>>, <<2362, 2362>>, <<2364, 2364>>, <<2369, 2376>>,
        <<2381, 2381>>, <<2385, 2391>>, <<2402, 2403>>, <<2417, 2417>>,
        <<2433, 2433>>, <<2492, 2492>>, <<2497, 2500>>, <<2509, 2509>>,
        <<2530, 2531>>, <<2558, 2558>>, <<2561, 2562>>, <<2620, 2620>>,
        <<2625, 2626>>, <<2631, 2632>>, <<2635, 2637>>, <<2641, 2641>>,
        <<2672, 2673>>, <<2677, 2677>>, <<2689, 2690>>, <<2748, 2748>>,
        <<2753, 2757>>, <<2759, 2760>>, <<2765, 2765>>, <<2786, 2787>>,
        <<2810, 2815>>, <<2817, 2817>>, <<2876, 2876>>, <<2879, 2879>>,
        <<2881, 2884>>, <<2893, 2893>>, <<2901, 2902>>, <<2914, 2915>>,
        <<2946, 2946>>, <<3008, 3008>>, <<3021, 3021>>, <<3072, 3072>>,
        <<3076, 3076>>, <<3132, 3132>>, <<3134, 3136>>, <<3142, 3144>>,
        <<3146, 3149>>, <<3157, 3158>>, <<3170, 3171>>, <<3201, 3201>>,
        <<3260, 3260>>, <<3263, 3263>>, <<3270, 3270>>, <<3276, 3277>>,
        <<3298, 3299>>, <<3328, 3329>>, <<3387, 3388>>, <<3393, 3396>>,
        <<3405, 3405>>, <<3426, 3427>>, <<3457, 3457>>, <<3530, 3530>>,
        <<3538, 3540>>, <<3542, 3542>>, <<3633, 3633>>, <<3636, 3642>>,
        <<3654, 3662>>, <<3761, 3761>>, <<3764, 3772>>, <<3782, 3782>>,
        <<3784, 3789>>, <<3864, 3865>>, <<3893, 3893>>, <<3895, 3895>>,
        <<3897, 3897>>, <<3953, 3966>>, <<3968, 3972>>, <<3974, 3975>>,
        <<3981, 3991>>, <<3993, 4028>>, <<4038, 4038>>, <<4141, 4144>>,
        <<4146, 4151>>, <<4153, 4154>>, <<4157, 4158>>, <<4184, 4185>>,
        <<4190, 4192>>, <<4209, 4212>>, <<4226, 4226>>, <<4229, 4230>>,
        <<4237, 4237>>, <<4253, 4253>>, <<4348, 4348>>, <<4957, 4959>>,
        <<5906, 5908>>, <<5938, 5939>>, <<5970, 5971>>, <<6002, 6003>>,
        <<6068, 6069>>, <<6071, 6077>>, <<6086, 6086>>, <<6089, 6099>>,
        <<6103, 6103>>, <<6109, 6109>>, <<6155, 6159>>, <<6211, 6211>>,
        <<6277, 6278>>, <<6313, 6313>>, <<6432, 6434>>, <<6439, 6440>>,
        <<6450, 6450>>, <<6457, 6459>>, <<6679, 6680>>, <<6683, 6683>>,
        <<6742, 6742>>, <<6744, 6750>>, <<6752, 6752>>, <<6754, 6754>>,
        <<6757, 6764>>, <<6771, 6780>>, <<6783, 6783>>, <<6823, 6823>>,
        <<6832, 6862>>, <<6912, 6915>>, <<6964, 6964>>, <<6966, 6970>>,
        <<6972, 6972>>, <<6978, 6978>>, <<7019, 7027>>, <<7040, 7041>>,
        <<7074, 7077>>, <<7080, 7081>>, <<7083, 7085>>, <<7142, 7142>>,
        <<7144, 7145>>, <<7149, 7149>>, <<7151, 7153>>, <<7212, 7219>>,
        <<7222, 7223>>, <<7288, 7293>>, <<7376, 7378>>, <<7380, 7392>>,
        <<7394, 7400>>, <<7405, 7405>>, <<7412, 7412>>, <<7416, 7417>>,
        <<7468, 7530>>, <<7544, 7544>>, <<7579, 7679>>, <<8125, 8125>>,
        <<8127, 8129>>, <<8141, 8143>>, <<8157, 8159>>, <<8173, 8175>>,
        <<8189, 8190>>, <<8203, 8207>>, <<8216, 8217>>, <<8228, 8228>>,
        <<8231, 8231>>, <<8234, 8238>>, <<8288, 8292>>, <<8294, 8303>>,
        <<8305, 8305>>, <<8319, 8319>>, <<8336, 8348>>, <<8400, 8432>>,
        <<11388, 11389>>, <<11503, 11505>>, <<11631, 11631>>,
        <<11647, 11647>>, <<11744, 11775>>, <<11823, 11823>>,
        <<12293, 12293>>, <<12330, 12333>>, <<12337, 12341>>,
        <<12347, 12347>>, <<12441, 12446>>, <<12540, 12542>>,
        <<40981, 40981>>, <<42232, 42237>>, <<42508, 42508>>,
        <<42607, 42610>>, <<42612, 42621>>, <<42623, 42623>>,
        <<42652, 42655>>, <<42736, 42737>>, <<42752, 42785>>,
        <<42864, 42864>>, <<42888, 42890>>, <<42994, 42996>>,
        <<43000, 43001>>, <<43010, 43010>>, <<43014, 43014>>,
        <<43019, 43019>>, <<43045, 43046>>, <<43052, 43052>>,
        <<43204, 43205>>, <<43232, 43249>>, <<43263, 43263>>,
        <<43302, 43309>>, <<43335, 43345>>, <<43392, 43394>>,
        <<43443, 43443>>, <<43446, 43449>>, <<43452, 43453>>,
        <<43471, 43471>>, <<43493, 43494>>, <<43561, 43566>>,
        <<43569, 43570>>, <<43573, 43574>>, <<43587, 43587>>,
        <<43596, 43596>>, <<43632, 43632>>, <<43644, 43644>>,
        <<43696, 43696>>, <<43698, 43700>>, <<43703, 43704>>,
        <<43710, 43711>>, <<43713, 43713>>, <<43741, 43741>>,
        <<43756, 43757>>, <<43763, 43764>>, <<43766, 43766>>,
        <<43867, 43871>>, <<43881, 43883>>, <<44005, 44005>>,
        <<44008, 44008>>, <<44013, 44013>>, <<64286, 64286>>,
        <<64434, 64450>>, <<65024, 65039>>, <<65043, 65043>>,
        <<65056, 65071>>, <<65106, 65106>>, <<65109, 65109>>,
        <<65279, 65279>>, <<65287, 65287>>, <<65294, 65294>>,
        <<65306, 65306>>, <<65342, 65342>>, <<65344, 65344>>,
        <<65392, 65392>>, <<65438, 65439>>, <<65507, 65507>>,
        <<65529, 65531>>, <<66045, 66045>>, <<66272, 66272>>,
        <<66422, 66426>>, <<67456, 67461>>, <<67463, 67504>>,
        <<67506, 67514>>, <<68097, 68099>>, <<68101, 68102>>,
        <<68108, 68111>>, <<68152, 68154>>, <<68159, 68159>>,
        <<68325, 68326>>, <<68900, 68903>>, <<69291, 69292>>,
        <<69446, 69456>>, <<69506, 69509>>, <<69633, 69633>>,
        <<69688, 69702>>, <<69744, 69744>>, <<69747, 69748>>,
        <<69759, 69761>>, <<69811, 69814>>, <<69817, 69818>>,
        <<69821, 69821>>, <<69826, 69826>>, <<69837, 69837>>,
        <<69888, 69890>>, <<69927, 69931>>, <<69933, 69940>>,
        <<70003, 70003>>, <<70016, 70017>>, <<70070, 70078>>,
        <<70089, 70092>>, <<70095, 70095>>, <<70191, 70193>>,
        <<70196, 70196>>, <<70198, 70199>>, <<70206, 70206>>,
        <<70367, 70367>>, <<70371, 70378>>, <<70400, 70401>>,
        <<70459, 70460>>, <<70464, 70464>>, <<70502, 70508>>,
        <<70512, 70516>>, <<70712, 70719>>, <<70722, 70724>>,
        <<70726, 70726>>, <<70750, 70750>>, <<70835, 70840>>,
        <<70842, 70842>>, <<70847, 70848>>, <<70850, 70851>>,
        <<71090, 71093>>, <<71100, 71101>>, <<71103, 71104>>,
        <<71132, 71133>>, <<71219, 71226>>, <<71229, 71229>>,
        <<71231, 71232>>, <<71339, 71339>>, <<71341, 71341>>,
        <<71344, 71349>>, <<71351, 71351>>, <<71453, 71455>>,
        <<71458, 71461>>, <<71463, 71467>>, <<71727, 71735>>,
        <<71737, 71738>>, <<71995, 71996>>, <<71998, 71998>>,
        <<72003, 72003>>, <<72148, 72151>>, <<72154, 72155>>,
        <<72160, 72160>>, <<72193, 72202>>, <<72243, 72248>>,
        <<72251, 72254>>, <<72263, 72263>>, <<72273, 72278>>,
        <<72281, 72283>>, <<72330, 72342>>, <<72344, 72345>>,
        <<72752, 72758>>, <<72760, 72765>>, <<72767, 72767>>,
        <<72850, 72871>>, <<72874, 72880>>, <<72882, 72883>>,
        <<72885, 72886>>, <<73009, 73014>>, <<73018, 73018>>,
        <<73020, 73021>>, <<73023, 73029>>, <<73031, 73031>>,
        <<73104, 73105>>, <<73109, 73109>>, <<73111, 73111>>,
        <<73459, 73460>>, <<78896, 78904>>, <<92912, 92916>>,
        <<92976, 92982>>, <<92992, 92995>>, <<94031, 94031>>,
        <<94095, 94111>>, <<94176, 94177>>, <<94179, 94180>>,
        <<110576, 110579>>, <<110581, 110587>>, <<110589, 110590>>,
        <<113821, 113822>>, <<113824, 113827>>, <<118528, 118573>>,
        <<118576, 118598>>, <<119143, 119145>>, <<119155, 119170>>,
        <<119173, 119179>>, <<119210, 119213>>, <<119362, 119364>>,
        <<121344, 121398>>, <<121403, 121452>>, <<121461, 121461>>,
        <<121476, 121476>>, <<121499, 121503>>, <<121505, 121519>>,
        <<122880, 122886>>, <<122888, 122904>>, <<122907, 122913>>,
        <<122915, 122916>>, <<122918, 122922>>, <<123184, 123197>>,
        <<123566, 123566>>, <<123628, 123631>>, <<125136, 125142>>,
        <<125252, 125259>>, <<127995, 127999>>, <<917505, 917505>>,
        <<917536, 917631>>, <<917760, 917999>>}
    IN  {"'", ".", ":", "^", chr(96)}
            \cup UNION {{chr(n) : n \in r[1]..r[2]} : r \in ranges}

(* The cased characters that are not case-ignorable, the ones that make
   a capital sigma before them a small one and after them a final one. *)
Cased ==
    LET ranges == {
        <<65, 90>>, <<97, 122>>, <<170, 170>>, <<181, 181>>, <<186, 186>>,
        <<192, 214>>, <<216, 246>>, <<248, 442>>, <<444, 447>>,
        <<452, 659>>, <<661, 687>>, <<880, 883>>, <<886, 887>>,
        <<891, 893>>, <<895, 895>>, <<902, 902>>, <<904, 906>>,
        <<908, 908>>, <<910, 929>>, <<931, 1013>>, <<1015, 1153>>,
        <<1162, 1327>>, <<1329, 1366>>, <<1376, 1416>>, <<4256, 4293>>,
        <<4295, 4295>>, <<4301, 4301>>, <<4304, 4346>>, <<4349, 4351>>,
        <<5024, 5109>>, <<5112, 5117>>, <<7296, 7304>>, <<7312, 7354>>,
        <<7357, 7359>>, <<7424, 7467>>, <<7531, 7543>>, <<7545, 7578>>,
        <<7680, 7957>>, <<7960, 7965>>, <<7968, 8005>>, <<8008, 8013>>,
        <<8016, 8023>>, <<8025, 8025>>, <<8027, 8027>>, <<8029, 8029>>,
        <<8031, 8061>>, <<8064, 8116>>, <<8118, 8124>>, <<8126, 8126>>,
        <<8130, 8132>>, <<8134, 8140>>, <<8144, 8147>>, <<8150, 8155>>,
        <<8160, 8172>>, <<8178, 8180>>, <<8182, 8188>>, <<8450, 8450>>,
        <<8455, 8455>>, <<8458, 8467>>, <<8469, 8469>>, <<8473, 8477>>,
        <<8484, 8484>>, <<8486, 8486>>, <<8488, 8488>>, <<8490, 8493>>,
        <<8495, 8500>>, <<8505, 8505>>, <<8508, 8511>>, <<8517, 8521>>,
        <<8526, 8526>>, <<8544, 8575>>, <<8579, 8580>>, <<9398, 9449>>,
        <<11264, 11387>>, <<11390, 11492>>, <<11499, 11502>>,
        <<11506, 11507>>, <<11520, 11557>>, <<11559, 11559>>,
        <<11565, 11565>>, <<42560, 42605>>, <<42624, 42651>>,
        <<42786, 42863>>, <<42865, 42887>>, <<42891, 42894>>,
        <<42896, 42954>>, <<42960, 42961>>, <<42963, 42963>>,
        <<42965, 42969>>, <<42997, 42998>>, <<43002, 43002>>,
        <<43824, 43866>>, <<43872, 43880>>, <<43888, 43967>>,
        <<64256, 64262>>, <<64275, 64279>>, <<65313, 65338>>,
        <<65345, 65370>>, <<66560, 66639>>, <<66736, 66771>>,
        <<66776, 66811>>, <<66928, 66938>>, <<66940, 66954>>,
        <<66956, 66962>>, <<66964, 66965>>, <<66967, 66977>>,
        <<66979, 66993>>, <<66995, 67001>>, <<67003, 67004>>,
        <<68736, 68786>>, <<68800, 68850>>, <<71840, 71903>>,
        <<93760, 93823>>, <<119808, 119892>>, <<119894, 119964>>,
        <<119966, 119967>>, <<119970, 119970>>, <<119973, 119974>>,
        <<119977, 119980>>, <<119982, 119993>>, <<119995, 119995>>,
        <<119997, 120003>>, <<120005, 120069>>, <<120071, 120074>>,
        <<120077, 120084>>, <<120086, 120092>>, <<120094, 120121>>,
        <<120123, 120126>>, <<120128, 120132>>, <<120134, 120134>>,
        <<120138, 120144>>, <<120146, 120485>>, <<120488, 120512>>,
        <<120514, 120538>>, <<120540, 120570>>, <<120572, 120596>>,
        <<120598, 120628>>, <<120630, 120654>>, <<120656, 120686>>,
        <<120688, 120712>>, <<120714, 120744>>, <<120746, 120770>>,
        <<120772, 120779>>, <<122624, 122633>>, <<122635, 122654>>,
        <<125184, 125251>>, <<127280, 127305>>, <<127312, 127337>>,
        <<127344, 127369>>}
    IN  UNION {{chr(n) : n \in r[1]..r[2]} : r \in ranges}

(* str.lower(): every cased character is lowered, which for U+0130 makes
   the string one character longer.  A capital sigma becomes the final
   sigma U+03C2 when a cased character comes before it and none after it,
   case-ignorable characters skipped on both sides, and U+03C3
   otherwise. *)
lower(s) ==
    LET final_sigma(i) ==
            LET before == {j \in 1..(i - 1) : s[j] \notin CaseIgnorable}
                after == {j \in (i + 1)..Len(s) : s[j] \notin CaseIgnorable}
            IN  /\ before # {}
                /\ s[CHOOSE j \in before : \A k \in before : k <= j] \in Cased
                /\ \/ after = {}
                   \/ s[CHOOSE j \in after : \A k \in after : j <= k]
                          \notin Cased
        lowered(i) ==
            IF s[i] = chr(931)
            THEN <<IF final_sigma(i) THEN chr(962) ELSE chr(963)>>
            ELSE IF s[i] \in DOMAIN ToLowerFull THEN ToLowerFull[s[i]]
            ELSE IF \E k \in 1..Len(UpperCase) : UpperCase[k] = s[i]
            THEN <<LowerCase[CHOOSE k \in 1..Len(UpperCase) :
                                 UpperCase[k] = s[i]]>>
            ELSE <<s[i]>>
        RECURSIVE lower_from(_)
        lower_from(i) ==
            IF i > Len(s) THEN <<>> ELSE lowered(i) \o lower_from(i + 1)
    IN  lower_from(1)

(* str.strip() *)
RECURSIVE lstrip(_)
lstrip(s) ==
    IF s # <<>> /\ Head(s) \in Whitespace THEN lstrip(Tail(s)) ELSE s

RECURSIVE rstrip(_)
rstrip(s) ==
    IF s # <<>> /\ s[Len(s)] \in Whitespace
    THEN rstrip(SubSeq(s, 1, Len(s) - 1)) ELSE s

strip(s) == rstrip(lstrip(s))

email_normalizer(email) == strip(lower(email))

(* validators.password_validator: a password of fewer than 8 characters
   raises ValueError (no value), any other is returned stripped.  The
   length is the one before stripping. *)
password_validator(password) ==
    IF Len(password) < 8 THEN {} ELSE {strip(password)}

(***************************************************************************)
(* Password hasher (security.get_password_hash / verify_password).         *)
(***************************************************************************)
get_password_hash(password) == <<"hash", password>>

verify_password(password, password_hash) == password_hash = get_password_hash(password)

(***************************************************************************)
(* Account persistence (cruds_users).  A lookup returns an optional row.   *)
(***************************************************************************)
(* The string form of a UUID, str(user.id); the id column compares a UUID
   with its string form by value. *)
uuid_str(id) == <<"uuid", id>>

get_user_by_id(db_users, user_id) == {u \in db_users : uuid_str(u.id) = user_id}

get_user_by_email(db_users, email) == {u \in db_users : u.email = email}

get_unconfirmed_user_by_activation_token(db_unconfirmed, activation_token) ==
    {r \in db_unconfirmed : r.activation_token = activation_token}

(* Variant: one row of the email is deleted, the others stay. *)
delete_unconfirmed_user_one_row(db_unconfirmed, email) ==
    LET rows == {r \in db_unconfirmed : r.email = email}
    IN  IF rows = {} THEN db_unconfirmed
        ELSE db_unconfirmed \ {CHOOSE r \in rows : TRUE}

(* DELETE FROM user_unconfirmed WHERE email = :email *)
delete_unconfirmed_user_by_email(db_unconfirmed, email) ==
    {r \in db_unconfirmed : r.email # email}

(* create_user: the insert raises IntegrityError when a row with that id or
   email is already stored (primary key, unique index) or, where the table
   carries the declared NOT NULL on password_hash, when the hash is NULL. *)
create_user_conflict(db_users, user, strict) ==
    \/ \E u \in db_users : u.id = user.id \/ u.email = user.email
    \/ strict /\ user.password_hash = {}

create_user(db_users, user) == db_users \cup {user}

(***************************************************************************)
(* Bearer tokens.  A token is the tuple the codec signs: the key it was    *)
(* signed with, whether it parses as a JWT, and the claims sub (optional), *)
(* scopes, iat (optional) and exp (optional).                              *)
(***************************************************************************)
Response(status, kind, user, data) ==
    [status |-> status, kind |-> kind, user |-> user, data |-> data,
     headers |-> {}]

TokenData(sub, scopes) == [sub |-> sub, scopes |-> scopes]

(* schemas_login.TokenData built from the payload: sub is required, scopes defaults. *)
TokenDataValid(token) == token.sub # {}

(* jwt.decode validates the registered claims after the signature, in the
   order iat, exp: an iat after the clock raises ImmatureSignatureError (an
   InvalidTokenError), an exp at or before it ExpiredSignatureError. *)
Immature(token, time) == \E i \in token.iat : i > time

(* Variant: exp is not verified. *)
get_token_data_no_expiry(token, time) ==
    IF ~token.structure_ok \/ token.key # SECRET_KEY
    THEN Response(403, "TokenMalformed", {}, {})
    ELSE IF Immature(token, time)
    THEN Response(403, "TokenInvalid", {}, {})
    ELSE IF ~TokenDataValid(token)
    THEN Response(403, "TokenInvalid", {}, {})
    ELSE Response(200, "OK", {},
                  {TokenData(CHOOSE s \in token.sub : TRUE, token.scopes)})

(* Variant: the expired signature falls into the generic except clause. *)
get_token_data_generic_first(token, time) ==
    IF ~token.structure_ok \/ token.key # SECRET_KEY
    THEN Response(403, "TokenMalformed", {}, {})
    ELSE IF Immature(token, time)
    THEN Response(403, "TokenInvalid", {}, {})
    ELSE IF \E e \in token.exp : e <= time
    THEN Response(403, "TokenInvalid", {}, {})
    ELSE IF ~TokenDataValid(token)
    THEN Response(403, "TokenInvalid", {}, {})
    ELSE Response(200, "OK", {},
                  {TokenData(CHOOSE s \in token.sub : TRUE, token.scopes)})

(* auth_utils.get_token_data: DecodeError (signature, structure) is the
   malformed 403, ExpiredSignatureError the expired one, every other
   InvalidTokenError and the ValidationError of TokenData the generic
   one. *)
get_token_data(token, time) ==
    IF ~token.structure_ok \/ token.key # SECRET_KEY
    THEN Response(403, "TokenMalformed", {}, {})
    ELSE IF Immature(token, time)
    THEN Response(403, "TokenInvalid", {}, {})
    ELSE IF \E e \in token.exp : e <= time
    THEN Response(403, "TokenExpired", {}, {})
    ELSE IF ~TokenDataValid(token)
    THEN Response(403, "TokenInvalid", {}, {})
    ELSE Response(200, "OK", {},
                  {TokenData(CHOOSE s \in token.sub : TRUE, token.scopes)})

(***************************************************************************)
(* Scope gate: OR over the scope-sets of AND over the scopes of a set,     *)
(* each scope looked up among the items of token_data.scopes.split(" ").   *)
(***************************************************************************)
scope_set_present(scope_set, token_scopes) ==
    \A i \in 1..Len(scope_set) : Contains(Split(token_scopes), scope_set[i])

scope_set_present_substring(scope_set, token_scopes) ==
    \A i \in 1..Len(scope_set) : IsSubstring(scope_set[i], token_scopes)

access_granted_substring(scopes, token_scopes) ==
    IF scopes = <<>> THEN TRUE
    ELSE \E k \in 1..Len(scopes) : scope_set_present_substring(scopes[k], token_scopes)

access_granted(scopes, token_scopes) ==
    IF scopes = <<>> THEN TRUE
    ELSE \E k \in 1..Len(scopes) : scope_set_present(scopes[k], token_scopes)

get_user_from_token_with_scopes_lookup_first(scopes, db_users, token_data) ==
    LET user == get_user_by_id(db_users, token_data.sub) IN
    IF user = {}
    THEN Response(404, "AccountNotFound", {}, {token_data})
    ELSE IF ~access_granted(scopes, token_data.scopes)
    THEN Response(403, "ScopeDenied", {}, {token_data})
    ELSE Response(200, "OK", user, {token_data})

get_user_from_token_with_scopes(scopes, db_users, token_data) ==
    IF ~access_granted(scopes, token_data.scopes)
    THEN Response(403, "ScopeDenied", {}, {token_data})
    ELSE LET user == get_user_by_id(db_users, token_data.sub) IN
         IF user = {}
         THEN Response(404, "AccountNotFound", {}, {token_data})
         ELSE Response(200, "OK", user, {token_data})

(***************************************************************************)
(* Account-type gate, the inner function of dependencies.is_user.          *)
(* account_type is optional; None falls back to AccountType.user.          *)
(***************************************************************************)
is_user_gate_flat(account_type, user) ==
    LET required == IF account_type = {} THEN "user"
                    ELSE CHOOSE a \in account_type : TRUE IN
    IF user.account_type = "admin" \/ user.account_type = "moderator"
    THEN Response(200, "OK", {user}, {})
    ELSE IF required = "admin"
    THEN Response(403, "PrivilegeInsufficient:admin", {}, {})
    ELSE IF required = "moderator"
    THEN Response(403, "PrivilegeInsufficient:moderator", {}, {})
    ELSE Response(200, "OK", {user}, {})

is_user_gate(account_type, user) ==
    LET required == IF account_type = {} THEN "user"
                    ELSE CHOOSE a \in account_type : TRUE IN
    IF user.account_type = "admin"
    THEN Response(200, "OK", {user}, {})
    ELSE IF required = "admin"
    THEN Response(403, "PrivilegeInsufficient:admin", {}, {})
    ELSE IF user.account_type = "moderator"
    THEN Response(200, "OK", {user}, {})
    ELSE IF required = "moderator"
    THEN Response(403, "PrivilegeInsufficient:moderator", {}, {})
    ELSE Response(200, "OK", {user}, {})

(* The whole dependency chain of Depends(is_user(account_type)):
   get_token_data, then the scope gate with [[ScopeType.API]], then the
   account-type gate. *)
is_user(account_type, db_users, token, time) ==
    LET decoded == get_token_data(token, time) IN
    IF decoded.status # 200 THEN decoded
    ELSE LET found == get_user_from_token_with_scopes(
                          <<(<<ScopeType.API>>)>>, db_users,
                          CHOOSE d \in decoded.data : TRUE) IN
         IF found.status # 200 THEN found
         ELSE [is_user_gate(account_type, CHOOSE u \in found.user : TRUE)
                 EXCEPT !.data = found.data]


(***************************************************************************)
(* Input domains of the dependency functions.                              *)
(***************************************************************************)
NoResponse == Response(0, "pending", {}, {})

NoCall == [fn |-> "none", args |-> <<>>]

(* The name given at activation (and to the superadmin at start-up). *)
GivenName == <<"n">>

Account(id, email, password_hash, is_active, account_type) ==
    [id |-> id, email |-> email, password_hash |-> password_hash,
     is_active |-> is_active, account_type |-> account_type,
     name |-> GivenName]

PolicyScopes == {<<"A">>, <<"B">>, <<"C">>}

ScopeChars == {"A", "B", "C", " "}

ScopeStrings == SeqsUpTo(ScopeChars, MaxScopeLen)

(* The policies of at most len scope sets holding at most budget scopes in
   all. *)
RECURSIVE PoliciesWithin(_, _)
PoliciesWithin(len, budget) ==
    IF len = 0
    THEN {<<>>}
    ELSE {<<>>} \cup
         UNION {{<<h>> \o t : t \in PoliciesWithin(len - 1, budget - Len(h))} :
                    h \in SeqsUpTo(PolicyScopes, budget)}

Policies == PoliciesWithin(MaxPolicyLen, MaxScopes)

DepsAccounts ==
    {Account(i, e, {get_password_hash(<<"p", "w", "1">>)}, a, t) :
        i \in {1, 2}, e \in {<<"e", "1">>, <<"e", "2">>}, a \in BOOLEAN, t \in AccountType}

DepsUsers == {Account(1, <<"e", "1">>, {get_password_hash(<<"p", "w", "1">>)}, TRUE, "user")}

Token(structure_ok, key, sub, scopes, iat, exp) ==
    [structure_ok |-> structure_ok, key |-> key, sub |-> sub,
     scopes |-> scopes, iat |-> iat, exp |-> exp]

DepsTokens ==
    {Token(w, k, s, sc, i, e) :
        w \in BOOLEAN, k \in {SECRET_KEY, "other key"},
        s \in {{}, {uuid_str(1)}, {uuid_str(2)}}, sc \in {<<>>, ScopeType.API, ScopeType.auth},
        i \in {{}, {0}, {MaxTime}},
        e \in {{}} \cup {{t} : t \in 0..MaxTime}}

ScopeGateCall(scopes, sub, token_scopes) ==
    [fn |-> "get_user_from_token_with_scopes",
     args |-> [scopes |-> scopes, token_data |-> TokenData(sub, token_scopes)]]

IsUserCalls ==
    {[fn |-> "is_user", args |-> [account_type |-> r, user |-> u]] :
        r \in {{}} \cup {{a} : a \in AccountType}, u \in DepsAccounts}

TokenDataCalls ==
    {[fn |-> "get_token_data", args |-> [token |-> tk, time |-> t]] :
        tk \in DepsTokens, t \in 0..MaxTime}

(***************************************************************************)
(* SpecDeps: one request's dependency is resolved.  The request (the       *)
(* function and its arguments) is drawn in the initial state; each action  *)
(* applies one dependency function to it.                                  *)
(***************************************************************************)
InitDeps ==
    /\ users = DepsUsers
    /\ unconfirmed = {}
    /\ now = 0
    /\ nextId = 0
    /\ issued = {}
    /\ activated = {}
    /\ registering = {}
    /\ strict_schema = TRUE
    /\ inflight = {}
    /\ recover_requests = {}
    /\ migration_codes = {}
    /\ archive = <<>>
    /\ SessionLocal = {"async_sessionmaker"}
    /\ sessions = {}
    /\ database = DeployedDatabase(strict_schema)
    /\ \/ \E p \in Policies, s \in {uuid_str(1), uuid_str(2)}, t \in ScopeStrings :
              call = ScopeGateCall(p, s, t)
       \/ call \in IsUserCalls \cup TokenDataCalls
    /\ resp = NoResponse

ApplyScopeGate ==
    /\ resp = NoResponse
    /\ call.fn = "get_user_from_token_with_scopes"
    /\ resp' = get_user_from_token_with_scopes(call.args.scopes, users,
                                               call.args.token_data)
    /\ UNCHANGED <<users, unconfirmed, now, nextId, issued, activated, registering,
                   strict_schema, inflight, recover_requests, migration_codes, call,
                   archive, SessionLocal, sessions,
                   database>>

ApplyIsUserGate ==
    /\ resp = NoResponse
    /\ call.fn = "is_user"
    /\ resp' = is_user_gate(call.args.account_type, call.args.user)
    /\ UNCHANGED <<users, unconfirmed, now, nextId, issued, activated, registering,
                   strict_schema, inflight, recover_requests, migration_codes, call,
                   archive, SessionLocal, sessions,
                   database>>

ApplyGetTokenData ==
    /\ resp = NoResponse
    /\ call.fn = "get_token_data"
    /\ resp' = get_token_data(call.args.token, call.args.time)
    /\ UNCHANGED <<users, unconfirmed, now, nextId, issued, activated, registering,
                   strict_schema, inflight, recover_requests, migration_codes, call,
                   archive, SessionLocal, sessions,
                   database>>

NextDeps == ApplyScopeGate \/ ApplyIsUserGate \/ ApplyGetTokenData

SpecDeps == InitDeps /\ [][NextDeps]_vars

(***************************************************************************)
(* Vocabulary of the properties.                                           *)
(***************************************************************************)
Done(fn) == call.fn = fn /\ resp # NoResponse

(* x is one of the space-separated items of s: a maximal run of s without
   a space, delimited by the ends of s or by spaces. *)
IsItem(x, s) ==
    /\ ~Contains(x, " ")
    /\ \E i \in 1..(Len(s) + 1) :
          /\ i + Len(x) - 1 <= Len(s)
          /\ SubSeq(s, i, i + Len(x) - 1) = x
          /\ (i = 1 \/ s[i - 1] = " ")
          /\ (i + Len(x) - 1 = Len(s) \/ s[i + Len(x)] = " ")

PolicySatisfied(policy, token_scopes) ==
    \/ policy = <<>>
    \/ \E k \in 1..Len(policy) :
          \A i \in 1..Len(policy[k]) : IsItem(policy[k][i], token_scopes)

PolicyABorC == <<(<<(<<"A">>), (<<"B">>)>>), (<<(<<"C">>)>>)>>

\* C1: the scope gate grants access exactly when the policy is the empty
\* list or some scope-set has all its scopes among the space-separated
\* items of the token's scopes (whole items, not substrings); otherwise
\* it answers 403 ScopeDenied.  Policy [[A,B],[C]] grants "A B" and "C"
\* and denies "A"; the empty scope string is denied by a one-scope policy.
C1_ScopePolicy ==
    Done("get_user_from_token_with_scopes") =>
        LET policy == call.args.scopes
            ts == call.args.token_data.scopes
        IN  /\ (resp.status # 403) <=> PolicySatisfied(policy, ts)
            /\ ~PolicySatisfied(policy, ts) =>
                   resp.status = 403 /\ resp.kind = "ScopeDenied"
            /\ (policy = PolicyABorC /\ ts \in {<<"A", " ", "B">>, <<"C">>}) =>
                   resp.status # 403
            /\ (policy = PolicyABorC /\ ts = <<"A">>) => resp.status = 403
            /\ (policy = <<(<<(<<"A">>)>>)>> /\ ts = <<>>) => resp.status = 403

C1_Witness ==
    /\ Done("get_user_from_token_with_scopes")
    /\ call.args.scopes = PolicyABorC
    /\ call.args.token_data.scopes = <<"A", "B">>
    /\ resp.kind = "ScopeDenied"

Rank(account_type) ==
    CASE account_type = "user" -> 0
      [] account_type = "moderator" -> 1
      [] account_type = "admin" -> 2

\* C2: with the order user < moderator < admin and an omitted requirement
\* read as user, the account-type gate returns the account exactly when
\* its type is at least the required one, and otherwise answers 403 naming
\* the missing tier (admin or moderator).
C2_AccountTypeGate ==
    Done("is_user") =>
        LET u == call.args.user
            r == IF call.args.account_type = {} THEN "user"
                 ELSE CHOOSE a \in call.args.account_type : TRUE
        IN  /\ (resp.status = 200) <=> (Rank(u.account_type) >= Rank(r))
            /\ resp.status = 200 => resp.user = {u}
            /\ resp.status # 200 =>
                   /\ resp.status = 403
                   /\ resp.user = {}
                   /\ r = "admin" => resp.kind = "PrivilegeInsufficient:admin"
                   /\ r = "moderator" =>
                          resp.kind = "PrivilegeInsufficient:moderator"

C2_Witness ==
    /\ Done("is_user")
    /\ call.args.user.account_type = "moderator"
    /\ call.args.account_type = {"admin"}
    /\ resp.kind = "PrivilegeInsufficient:admin"

\* C3 as claimed: get_token_data yields token data only for a well-formed
\* token signed with the server secret, whose exp has not passed and whose
\* payload has a sub.  With a good signature an expired token fails as
\* TokenExpired; a bad signature or structure fails as TokenMalformed; a
\* verified, unexpired payload without sub fails as TokenInvalid.  Every
\* failure is a 403 that carries neither token data nor an account.
C3_TokenValidityAsClaimed ==
    Done("get_token_data") =>
        LET t == call.args.token
            verified == t.structure_ok /\ t.key = SECRET_KEY
            passed == \E e \in t.exp : e < call.args.time
            pending == \A e \in t.exp : call.args.time < e
        IN  /\ resp.status = 200 =>
                   /\ verified /\ ~passed /\ t.sub # {}
                   /\ resp.data = {TokenData(s, t.scopes) : s \in t.sub}
            /\ ~verified => resp.kind = "TokenMalformed"
            /\ (verified /\ passed) => resp.kind = "TokenExpired"
            /\ (verified /\ pending /\ t.sub = {}) => resp.kind = "TokenInvalid"
            /\ resp.status # 200 =>
                   /\ resp.status = 403
                   /\ resp.kind \in {"TokenExpired", "TokenMalformed", "TokenInvalid"}
                   /\ resp.data = {} /\ resp.user = {}

\* C3, amended: get_token_data yields token data only for a well-formed
\* token signed with the server secret, whose iat, if it has one, is not
\* after the clock, whose exp has not passed and whose payload has a sub,
\* and for every such token with exp still ahead.  A bad signature or
\* structure fails as TokenMalformed; with a good signature an iat after
\* the clock fails as TokenInvalid, expired or not; otherwise an expired
\* token fails as TokenExpired and an unexpired payload without sub as
\* TokenInvalid.  Every failure is a 403 that carries neither token data
\* nor an account.
C3_TokenValidity ==
    Done("get_token_data") =>
        LET t == call.args.token
            verified == t.structure_ok /\ t.key = SECRET_KEY
            mature == \A i \in t.iat : i <= call.args.time
            passed == \E e \in t.exp : e < call.args.time
            pending == \A e \in t.exp : call.args.time < e
        IN  /\ resp.status = 200 =>
                   /\ verified /\ mature /\ ~passed /\ t.sub # {}
                   /\ resp.data = {TokenData(s, t.scopes) : s \in t.sub}
            /\ (verified /\ mature /\ pending /\ t.sub # {})
                   => resp.status = 200
            /\ ~verified => resp.kind = "TokenMalformed"
            /\ (verified /\ ~mature) => resp.kind = "TokenInvalid"
            /\ (verified /\ mature /\ passed) => resp.kind = "TokenExpired"
            /\ (verified /\ mature /\ pending /\ t.sub = {})
                   => resp.kind = "TokenInvalid"
            /\ resp.status # 200 =>
                   /\ resp.status = 403
                   /\ resp.kind \in {"TokenExpired", "TokenMalformed", "TokenInvalid"}
                   /\ resp.data = {} /\ resp.user = {}

\* A token signed with the server secret, with a sub, whose exp has passed
\* and whose iat is still ahead of the clock, has been refused with the
\* generic 403.
C3_Witness ==
    /\ Done("get_token_data")
    /\ call.args.token.structure_ok /\ call.args.token.key = SECRET_KEY
    /\ call.args.token.sub # {}
    /\ \E e \in call.args.token.exp : e < call.args.time
    /\ \E i \in call.args.token.iat : i > call.args.time
    /\ resp.status = 403
    /\ resp.kind = "TokenInvalid"

\* C7: the scope gate looks the subject up only after the policy is
\* satisfied: a token failing the policy gets 403 whether or not its account
\* exists; a token satisfying it whose sub matches no account gets 404
\* AccountNotFound; when both pass, the returned account's id is the sub.
C7_ScopeBeforeLookup ==
    Done("get_user_from_token_with_scopes") =>
        LET td == call.args.token_data
            ok == PolicySatisfied(call.args.scopes, td.scopes)
            exists == \E u \in users : uuid_str(u.id) = td.sub
        IN  /\ ~ok => resp.status = 403 /\ resp.user = {}
            /\ (ok /\ ~exists) =>
                   resp.status = 404 /\ resp.kind = "AccountNotFound" /\ resp.user = {}
            /\ (ok /\ exists) =>
                   /\ resp.status = 200
                   /\ Cardinality(resp.user) = 1
                   /\ \A u \in resp.user : uuid_str(u.id) = td.sub /\ u \in users

C7_Witness ==
    /\ Done("get_user_from_token_with_scopes")
    /\ ~PolicySatisfied(call.args.scopes, call.args.token_data.scopes)
    /\ \A u \in users : uuid_str(u.id) # call.args.token_data.sub
    /\ resp.status = 403


(***************************************************************************)
(* Authenticator and token issuer (app.core.utils.security).               *)
(***************************************************************************)
authenticate_user(db_users, email, password) ==
    {u \in get_user_by_email(db_users, email) :
        \E h \in u.password_hash : verify_password(password, h)}

create_access_token(data, time) ==
    Token(TRUE, SECRET_KEY, {data.sub}, data.scopes, {time},
          {time + ACCESS_TOKEN_EXPIRE})

(***************************************************************************)
(* POST /login/access-token.                                               *)
(***************************************************************************)
BearerChallenge == {<<"WWW-Authenticate", "Bearer">>}

AccessToken(access_token) ==
    [access_token |-> access_token, token_type |-> "bearer"]

login_for_access_token_active_first(db_users, username, password, time) ==
    LET known == get_user_by_email(db_users, username)
        user == authenticate_user(db_users, username, password)
    IN  IF \E u \in known : ~u.is_active
        THEN Response(400, "AccountInactive", {}, {})
        ELSE IF user = {}
        THEN [Response(401, "CredentialsInvalid", {}, {})
                EXCEPT !.headers = BearerChallenge]
        ELSE LET u == CHOOSE x \in user : TRUE
                 data == TokenData(uuid_str(u.id), ScopeType.auth)
             IN  Response(200, "OK", {},
                          {AccessToken(create_access_token(data, time))})

login_for_access_token(db_users, username, password, time) ==
    LET user == authenticate_user(db_users, username, password) IN
    IF user = {}
    THEN [Response(401, "CredentialsInvalid", {}, {})
            EXCEPT !.headers = BearerChallenge]
    ELSE LET u == CHOOSE x \in user : TRUE IN
         IF ~u.is_active
         THEN Response(400, "AccountInactive", {}, {})
         ELSE LET data == TokenData(uuid_str(u.id), ScopeType.auth) IN
              Response(200, "OK", {},
                       {AccessToken(create_access_token(data, time))})

(***************************************************************************)
(* SpecAuth: password login, then requests that present a bearer token,    *)
(* while the clock advances.  The account table is fixed: the bootstrap    *)
(* superadmin, an active account and an inactive one (is_active is only    *)
(* ever cleared outside the API).                                          *)
(***************************************************************************)
Superadmin ==
    Account(SUPERADMIN_ID, FIRST_SUPERUSER,
            {get_password_hash(FIRST_SUPERUSER_PASSWORD)}, TRUE, "admin")

AuthUsers ==
    {Superadmin,
     Account(1, <<"e", "1">>, {get_password_hash(<<"p", "w", "1">>)}, TRUE, "user"),
     Account(2, <<"e", "2">>, {get_password_hash(<<"p", "w", "2">>)}, FALSE, "user")}

Usernames == {FIRST_SUPERUSER, <<"e", "1">>, <<"e", "2">>, <<"n", "o">>}

Passwords == {FIRST_SUPERUSER_PASSWORD, <<"p", "w", "1">>, <<"p", "w", "2">>}

(* A token a client can present: one the server issued, or one of those
   altered by the client (scopes widened to API, signed with another key). *)
Forged(token) == [token EXCEPT !.key = "other key", !.scopes = ScopeType.API]

Presentable == issued \cup {Forged(t) : t \in issued}

InitAuth ==
    /\ users = AuthUsers
    /\ unconfirmed = {}
    /\ now = 0
    /\ nextId = 0
    /\ issued = {}
    /\ activated = {}
    /\ registering = {}
    /\ strict_schema = TRUE
    /\ inflight = {}
    /\ recover_requests = {}
    /\ migration_codes = {}
    /\ archive = <<>>
    /\ SessionLocal = {"async_sessionmaker"}
    /\ sessions = {}
    /\ database = DeployedDatabase(strict_schema)
    /\ call = NoCall
    /\ resp = NoResponse

Login ==
    \E username \in Usernames, password \in Passwords :
        LET r == login_for_access_token(users, username, password, now)
            minted == {body.access_token : body \in r.data}
        IN  /\ Cardinality(issued \cup minted) <= MaxTokens
            /\ call' = [fn |-> "login_for_access_token",
                        args |-> [username |-> username, password |-> password,
                                  time |-> now]]
            /\ resp' = r
            /\ issued' = issued \cup minted
            /\ UNCHANGED <<users, unconfirmed, now, nextId, activated, registering,
                           strict_schema, inflight, recover_requests, migration_codes,
                   archive, SessionLocal, sessions,
                   database>>

VerifyToken ==
    \E token \in Presentable :
        /\ call' = [fn |-> "get_token_data",
                    args |-> [token |-> token, time |-> now]]
        /\ resp' = get_token_data(token, now)
        /\ UNCHANGED <<users, unconfirmed, now, nextId, issued, activated,
                       registering, strict_schema, inflight, recover_requests, migration_codes,
                   archive, SessionLocal, sessions,
                   database>>

AuthorizedRequest ==
    \E token \in Presentable, account_type \in {{}} \cup {{a} : a \in AccountType} :
        /\ call' = [fn |-> "is_user",
                    args |-> [token |-> token, account_type |-> account_type,
                              time |-> now]]
        /\ resp' = is_user(account_type, users, token, now)
        /\ UNCHANGED <<users, unconfirmed, now, nextId, issued, activated,
                       registering, strict_schema, inflight, recover_requests, migration_codes,
                   archive, SessionLocal, sessions,
                   database>>

Tick ==
    /\ now < MaxTime
    /\ now' = now + 1
    /\ UNCHANGED <<users, unconfirmed, nextId, issued, activated, registering,
                   strict_schema, inflight, recover_requests, migration_codes, call, resp,
                   archive, SessionLocal, sessions,
                   database>>

(* cruds_users.get_users: the accounts whose account_type is one of the
   included types (all of them when none is given) and none of the excluded
   ones. *)
get_users(db_users, included_account_types, excluded_account_types) ==
    {u \in db_users :
        /\ included_account_types # {}
               => u.account_type \in included_account_types
        /\ u.account_type \notin excluded_account_types}

(* schemas_users.CoreUserSimple validated from a stored row, as the
   response_model of GET /users/search does (from_attributes): id is
   declared str and the id of a row is a uuid.UUID, which the validation
   does not take for a string, so no stored row validates; the name of an
   object that validates goes through validators.trailing_spaces_remover
   (CoreUserBase._normalize_name). *)
UserSimple(user) ==
    IF user.id \in Int THEN {}
    ELSE {[name |-> strip(user.name), id |-> user.id,
           account_type |-> user.account_type]}

(* Depends(is_user), the factory given without being called: the framework
   calls is_user(account_type) itself, account_type being an optional query
   parameter, and hands the handler what the call returns, which is the
   inner function.  The Authorization header is not read. *)
is_user_uncalled(account_type) ==
    [callable |-> "is_user",
     account_type |-> IF account_type = {} THEN "user"
                      ELSE CHOOSE a \in account_type : TRUE]

(* GET /users/search with a token in its Authorization header: the
   accounts get_users selects (their ranking against the query is left
   out), serialised as the response_model; a row that does not validate
   makes the answer a 500. *)
search_users(db_users, token, time, included, excluded) ==
    LET user == is_user_uncalled({})
        selected == get_users(db_users, included, excluded)
    IN  IF \E u \in selected : UserSimple(u) = {}
        THEN Response(500, "ResponseValidationError", {}, {})
        ELSE Response(200, "OK", {},
                      UNION {UserSimple(u) : u \in selected})

(* POST /login/test-token: the handler returns what it was given, and the
   inner function does not validate as response_model User. *)
test_token(db_users, token, time) ==
    LET current_user == is_user_uncalled({})
    IN  Response(500, "ResponseValidationError", {}, {})

SearchUsers ==
    \E token \in Presentable, included \in {{}, {"moderator"}} :
        /\ call' = [fn |-> "search_users",
                    args |-> [token |-> token, account_type |-> {},
                              time |-> now]]
        /\ resp' = search_users(users, token, now, included, {})
        /\ UNCHANGED <<users, unconfirmed, now, nextId, issued, activated,
                       registering, strict_schema, inflight,
                       recover_requests, migration_codes,
                       archive, SessionLocal, sessions,
                   database>>

TestToken ==
    \E token \in Presentable :
        /\ call' = [fn |-> "test_token",
                    args |-> [token |-> token, account_type |-> {},
                              time |-> now]]
        /\ resp' = test_token(users, token, now)
        /\ UNCHANGED <<users, unconfirmed, now, nextId, issued, activated,
                       registering, strict_schema, inflight,
                       recover_requests, migration_codes,
                       archive, SessionLocal, sessions,
                   database>>

NextAuth ==
    \/ Login
    \/ VerifyToken
    \/ AuthorizedRequest
    \/ SearchUsers
    \/ TestToken
    \/ Tick

SpecAuth == InitAuth /\ [][NextAuth]_vars

\* C4 (as claimed): an access token returned by a successful login, presented
\* before its expiry to an endpoint behind Depends(is_user()) with the default
\* requirement, is accepted and the handler receives the account whose id is
\* the token's sub.
C4_LoginTokenAccepted ==
    ( /\ call.fn = "is_user"
      /\ call.args.token \in issued
      /\ call.args.account_type = {}
      /\ \A e \in call.args.token.exp : call.args.time < e )
    => /\ resp.status = 200
       /\ Cardinality(resp.user) = 1
       /\ \A u \in resp.user : {uuid_str(u.id)} = call.args.token.sub

\* C5: login returns {access_token, token_type "bearer"} exactly when
\* authentication returns an account and the account is active, and the
\* token's sub is that account's id; it answers 401 with WWW-Authenticate:
\* Bearer when authentication returns none (also for an inactive account
\* with a wrong password) and 400 when the credentials match an inactive
\* account; no stored row changes.
C5_LoginOutcomes ==
    call.fn = "login_for_access_token" =>
        LET account == {u \in users : u.email = call.args.username}
            matched == {u \in account :
                           u.password_hash = {get_password_hash(call.args.password)}}
        IN  /\ (resp.status = 200) <=> (\E u \in matched : u.is_active)
            /\ resp.status = 200 =>
                   /\ Cardinality(resp.data) = 1
                   /\ \A body \in resp.data :
                          /\ body.token_type = "bearer"
                          /\ body.access_token \in issued
                          /\ \E u \in matched :
                                 body.access_token.sub = {uuid_str(u.id)}
            /\ matched = {} =>
                   /\ resp.status = 401
                   /\ <<"WWW-Authenticate", "Bearer">> \in resp.headers
                   /\ resp.data = {}
            /\ (\E u \in matched : ~u.is_active) =>
                   resp.status = 400 /\ resp.data = {}
            /\ users = AuthUsers /\ unconfirmed = {}

C5_Witness ==
    /\ call.fn = "login_for_access_token"
    /\ call.args.username = <<"e", "2">>
    /\ call.args.password = <<"p", "w", "1">>
    /\ resp.status = 401

\* C6: a token issued at time t with TTL T is accepted by the verifier at
\* every time before t + T and rejected as TokenExpired at every time after
\* t + T.
C6_TokenLifetime ==
    /\ \A t \in issued :
          /\ Cardinality(t.iat) = 1
          /\ t.exp = {i + ACCESS_TOKEN_EXPIRE : i \in t.iat}
    /\ (call.fn = "get_token_data" /\ call.args.token \in issued) =>
          \A i \in call.args.token.iat :
              /\ call.args.time < i + ACCESS_TOKEN_EXPIRE =>
                     /\ resp.status = 200
                     /\ \A d \in resp.data : {d.sub} = call.args.token.sub
              /\ call.args.time > i + ACCESS_TOKEN_EXPIRE =>
                     resp.status = 403 /\ resp.kind = "TokenExpired"

C6_Witness ==
    /\ call.fn = "get_token_data"
    /\ call.args.token \in issued
    /\ \E i \in call.args.token.iat : call.args.time > i + ACCESS_TOKEN_EXPIRE
    /\ resp.kind = "TokenExpired"

(***************************************************************************)
(* Account lifecycle: registration and activation.                         *)
(***************************************************************************)
(* A user_unconfirmed row.  password_hash is optional: NULL is {}. *)
UserUnconfirmed(id, email, password_hash, activation_token, created_on, expire_on) ==
    [id |-> id, email |-> email, password_hash |-> password_hash,
     activation_token |-> activation_token, created_on |-> created_on,
     expire_on |-> expire_on]

(* security.generate_token: a fresh opaque value per call. *)
generate_token(n) == <<"token", n>>

(* The row create_user builds: a fresh id and token, no password_hash, and
   expire_on one validity period after the time of the call. *)
new_user_unconfirmed(n, email, time) ==
    UserUnconfirmed(n, email, {}, generate_token(n), time,
                    time + USER_ACTIVATION_TOKEN_EXPIRE)

(* create_unconfirmed_user: the insert raises IntegrityError on a stored id
   or, under the declared NOT NULL, on a NULL password_hash. *)
create_unconfirmed_user_conflict(db_unconfirmed, row, strict) ==
    \/ \E r \in db_unconfirmed : r.id = row.id
    \/ strict /\ row.password_hash = {}

(* The account the activation builds from the matched row. *)
confirmed_user(row, password_hash) ==
    Account(row.id, row.email, password_hash, TRUE, "user")

(* Variant: the expiry of the matched row is not looked at. *)
activate_user_check_no_expiry(db_unconfirmed, activation_token, time) ==
    IF get_unconfirmed_user_by_activation_token(db_unconfirmed,
                                                activation_token) = {}
    THEN {Response(404, "TokenNotFound", {}, {})}
    ELSE {}

(* activate_user up to its second database call: the row is looked up by
   its token and its expire_on compared with the clock; the error the
   request ends with, if any. *)
activate_user_check(db_unconfirmed, activation_token, time) ==
    LET found == get_unconfirmed_user_by_activation_token(db_unconfirmed,
                                                          activation_token)
    IN  IF found = {}
        THEN {Response(404, "TokenNotFound", {}, {})}
        ELSE IF (CHOOSE r \in found : TRUE).expire_on < time
        THEN {Response(400, "TokenExpired", {}, {})}
        ELSE {}

(* The inputs of the lifecycle. *)
RegEmails == {<<"e", "1">>, <<"e", "2">>}

ActivationTokens == {generate_token(n) : n \in 0..MaxRows}

(* The tokens presented in SpecActivate: those of its three pending rows
   and one no row has. *)
PendingTokens == {generate_token(n) : n \in 0..3}

(* A registration request between two of its database calls: pc names the
   call it is about to make, row the row it has built (if any). *)
Registration(email, pc, row) == [email |-> email, pc |-> pc, row |-> row]

(* After construction: init_db has created the tables and init_superadmin
   the first account.  strict_schema tells whether the tables in place
   carry the NOT NULL that the models declare on password_hash (tables
   built by create_all do; tables brought up by migrations carry what the
   migrations gave them). *)
Init ==
    /\ users = {Superadmin}
    /\ unconfirmed = {}
    /\ now = 0
    /\ nextId = 1
    /\ issued = {}
    /\ activated = {}
    /\ registering = {}
    /\ strict_schema \in BOOLEAN
    /\ inflight = {}
    /\ recover_requests = {}
    /\ migration_codes = {}
    /\ archive = <<>>
    /\ SessionLocal = {"async_sessionmaker"}
    /\ sessions = {}
    /\ database = DeployedDatabase(strict_schema)
    /\ call = NoCall
    /\ resp = NoResponse

(* POST /users/create up to its first lookup: an existing account ends the
   request with the silent success, otherwise the request goes on to
   create_user. *)
CreateUserByUser(email) ==
    /\ Cardinality(registering) < MaxInFlight
    /\ IF get_user_by_email(users, email) # {}
       THEN /\ call' = [fn |-> "create_user_by_user", args |-> [email |-> email]]
            /\ resp' = Response(201, "OK", {}, {})
            /\ UNCHANGED registering
       ELSE /\ registering' = registering \cup {Registration(email, "create_user", {})}
            /\ UNCHANGED <<call, resp>>
    /\ UNCHANGED <<users, unconfirmed, now, nextId, issued, activated, strict_schema, inflight, recover_requests, migration_codes,
                   archive, SessionLocal, sessions,
                   database>>

(* create_user: the second lookup, then the row is built. *)
CreateUser(req) ==
    /\ req \in registering
    /\ req.pc = "create_user"
    /\ nextId <= MaxRows
    /\ IF get_user_by_email(users, req.email) # {}
       THEN /\ registering' = registering \ {req}
            /\ call' = [fn |-> "create_user_by_user", args |-> [email |-> req.email]]
            /\ resp' = Response(500, "UserWithEmailAlreadyExistError", {}, {})
            /\ UNCHANGED nextId
       ELSE /\ registering' = (registering \ {req}) \cup
                  {Registration(req.email, "create_unconfirmed_user",
                                {new_user_unconfirmed(nextId, req.email, now)})}
            /\ nextId' = nextId + 1
            /\ UNCHANGED <<call, resp>>
    /\ UNCHANGED <<users, unconfirmed, now, issued, activated, strict_schema, inflight, recover_requests, migration_codes,
                   archive, SessionLocal, sessions,
                   database>>

(* cruds_users.create_unconfirmed_user: the insert and its commit, which
   ends the request. *)
CreateUnconfirmedUser(req) ==
    /\ req \in registering
    /\ req.pc = "create_unconfirmed_user"
    /\ registering' = registering \ {req}
    /\ call' = [fn |-> "create_user_by_user", args |-> [email |-> req.email]]
    /\ LET row == CHOOSE r \in req.row : TRUE
       IN  IF create_unconfirmed_user_conflict(unconfirmed, row, strict_schema)
           THEN /\ resp' = Response(500, "IntegrityError", {}, {})
                /\ UNCHANGED unconfirmed
           ELSE /\ resp' = Response(201, "OK", {}, {})
                /\ unconfirmed' = unconfirmed \cup {row}
    /\ UNCHANGED <<users, now, nextId, issued, activated, strict_schema, inflight, recover_requests, migration_codes,
                   archive, SessionLocal, sessions,
                   database>>

(***************************************************************************)
(* Activation: POST /login/activate and POST /users/activate.  A request   *)
(* in flight holds the database call it makes next (pc) and its local      *)
(* variables; one step runs that call against the tables and the code      *)
(* after it up to the next call, so requests interleave at their database  *)
(* calls.                                                                  *)
(***************************************************************************)
(* The request slots not in use. *)
FreeSlots == (1..MaxRequests) \ {r.rid : r \in inflight}

FirstFreeSlot == CHOOSE r \in FreeSlots : \A q \in FreeSlots : r <= q

ActivateFns == {"login.activate_user", "users.activate_user"}

(* password is the validated password of the body of /users/activate, none
   for /login/activate, which does not read it. *)
ActivationInFlight(rid, fn, activation_token, password, pc, row) ==
    [rid |-> rid, fn |-> fn, activation_token |-> activation_token,
     password |-> password, pc |-> pc, unconfirmed_user |-> row]

ActivationCall(fn, activation_token) ==
    [fn |-> fn, args |-> [activation_token |-> activation_token]]

(* The request ends: its response becomes the one handled last. *)
Respond(req, response) ==
    /\ inflight' = inflight \ {req}
    /\ call' = ActivationCall(req.fn, req.activation_token)
    /\ resp' = response

(* First call of both handlers: the row is looked up by its token, then
   its expire_on is compared with the clock.  At most `limit` requests are
   in flight. *)
ActivateLookup(fn, activation_token, password, limit) ==
    /\ Cardinality(inflight) < limit
    /\ FreeSlots # {}
    /\ LET error == activate_user_check(unconfirmed, activation_token, now)
           found == get_unconfirmed_user_by_activation_token(unconfirmed,
                                                             activation_token)
       IN  IF error # {}
           THEN /\ call' = ActivationCall(fn, activation_token)
                /\ resp' = CHOOSE e \in error : TRUE
                /\ UNCHANGED inflight
           ELSE /\ inflight' = inflight \cup
                      {ActivationInFlight(FirstFreeSlot, fn, activation_token,
                                          password, "get_user_by_email",
                                          found)}
                /\ UNCHANGED <<call, resp>>
    /\ UNCHANGED <<users, unconfirmed, now, nextId, issued, activated,
                   registering, strict_schema, recover_requests,
                   migration_codes, archive, SessionLocal, sessions, database>>

(* POST /login/activate. *)
LoginActivate(activation_token, limit) ==
    ActivateLookup("login.activate_user", activation_token, {}, limit)

(* POST /users/activate: the body is validated before the handler runs; a
   password the validator refuses is answered 422. *)
UsersActivate(activation_token, password, limit) ==
    IF password_validator(password) = {}
    THEN /\ call' = ActivationCall("users.activate_user", activation_token)
         /\ resp' = Response(422, "ValidationError", {}, {})
         /\ UNCHANGED <<users, unconfirmed, now, nextId, issued, activated,
                        registering, strict_schema, inflight,
                        recover_requests, migration_codes, archive,
                        SessionLocal, sessions, database>>
    ELSE ActivateLookup("users.activate_user", activation_token,
                        password_validator(password), limit)

(* Second call: is there an account with the row's email? *)
ActivateCheckEmail(req) ==
    /\ req \in inflight
    /\ req.fn \in ActivateFns
    /\ req.pc = "get_user_by_email"
    /\ LET row == CHOOSE r \in req.unconfirmed_user : TRUE
       IN  IF get_user_by_email(users, row.email) # {}
           THEN Respond(req, Response(400, "AlreadyConfirmed", {}, {}))
           ELSE /\ inflight' = (inflight \ {req}) \cup
                               {[req EXCEPT !.pc = "create_user"]}
                /\ UNCHANGED <<call, resp>>
    /\ UNCHANGED <<users, unconfirmed, now, nextId, issued, activated,
                   registering, strict_schema, recover_requests,
                   migration_codes, archive, SessionLocal, sessions, database>>

(* The account the request inserts: /login/activate copies the row's
   password_hash, /users/activate hashes the password of its body. *)
ActivationUser(req) ==
    LET row == CHOOSE r \in req.unconfirmed_user : TRUE
    IN  confirmed_user(row,
            IF req.fn = "login.activate_user" THEN row.password_hash
            ELSE {get_password_hash(CHOOSE p \in req.password : TRUE)})

(* Third call: cruds_users.create_user inserts the account and commits; an
   IntegrityError is rolled back and raised again, and nothing in the
   handler catches it. *)
ActivateCreateUser(req) ==
    /\ req \in inflight
    /\ req.fn \in ActivateFns
    /\ req.pc = "create_user"
    /\ IF create_user_conflict(users, ActivationUser(req), strict_schema)
       THEN /\ Respond(req, Response(500, "IntegrityError", {}, {}))
            /\ UNCHANGED users
       ELSE /\ users' = create_user(users, ActivationUser(req))
            /\ inflight' = (inflight \ {req}) \cup
                   {[req EXCEPT !.pc = "delete_unconfirmed_user_by_email"]}
            /\ UNCHANGED <<call, resp>>
    /\ UNCHANGED <<unconfirmed, now, nextId, issued, activated, registering,
                   strict_schema, recover_requests, migration_codes, archive,
                   SessionLocal, sessions, database>>

(* Fourth call: the pending rows of the email are deleted and the deletion
   is committed, then 201. *)
ActivateDelete(req) ==
    /\ req \in inflight
    /\ req.fn \in ActivateFns
    /\ req.pc = "delete_unconfirmed_user_by_email"
    /\ LET row == CHOOSE r \in req.unconfirmed_user : TRUE
       IN  unconfirmed' = delete_unconfirmed_user_by_email(unconfirmed, row.email)
    /\ Respond(req, Response(201, "OK", {}, {}))
    /\ activated' = activated \cup {req.activation_token}
    /\ UNCHANGED <<users, now, nextId, issued, registering, strict_schema,
                   recover_requests, migration_codes, archive, SessionLocal,
                   sessions, database>>

(* The passwords sent to /users/activate: one the validator refuses, and
   one of 8 characters that it accepts and strips to 7. *)
ActivationPasswords ==
    {<<"p", "w", "1">>, <<"p", "w", "1", "p", "w", "1", "p", " ">>}

(* A request may start while fewer than MaxRequests are under way. *)
MayStart == Cardinality(inflight) + Cardinality(registering) < MaxRequests

(* The lifecycle: registrations and activations, with at most MaxInFlight
   requests of each kind under way, while the clock advances. *)
Next ==
    \/ \E email \in RegEmails : CreateUserByUser(email)
    \/ \E req \in registering : CreateUser(req)
    \/ \E req \in registering : CreateUnconfirmedUser(req)
    \/ \E activation_token \in ActivationTokens :
           LoginActivate(activation_token, MaxInFlight)
    \/ \E activation_token \in ActivationTokens,
              password \in ActivationPasswords :
           UsersActivate(activation_token, password, MaxInFlight)
    \/ \E req \in inflight : ActivateCheckEmail(req)
    \/ \E req \in inflight : ActivateCreateUser(req)
    \/ \E req \in inflight : ActivateDelete(req)
    \/ Tick

Spec == Init /\ [][Next]_vars

(* The row an activation request read at its first call. *)
RowOf(req) == CHOOSE r \in req.unconfirmed_user : TRUE

(* An activation request presenting the token starts in this step. *)
ActivationStarts(activation_token) ==
    \/ LoginActivate(activation_token, MaxRequests)
    \/ \E password \in ActivationPasswords :
           /\ password_validator(password) # {}
           /\ UsersActivate(activation_token, password, MaxRequests)

(* C8: an activation whose token matches a pending row that is not past its
   expire_on goes on to its insert while no account has the row's email;
   the insert then adds exactly one account, with the row's id and email,
   account_type user and is_active true, the only account with that email;
   the request then deletes every pending row with that email, changes no
   other pending row and answers 201. *)
C8_ActivationCreatesAccount ==
    [][/\ \A tok \in ActivationTokens \cup PendingTokens :
              (/\ ActivationStarts(tok)
               /\ \E r \in unconfirmed :
                      r.activation_token = tok /\ ~(r.expire_on < now))
              => \E req \in inflight' \ inflight :
                     /\ req.activation_token = tok
                     /\ RowOf(req) \in unconfirmed
                     /\ UNCHANGED <<users, unconfirmed, resp>>
       /\ \A req \in inflight :
              /\ (/\ ActivateCheckEmail(req)
                  /\ get_user_by_email(users, RowOf(req).email) = {})
                 => /\ inflight' # inflight \ {req}
                    /\ UNCHANGED <<users, unconfirmed, resp>>
              /\ (/\ ActivateCreateUser(req)
                  /\ get_user_by_email(users, RowOf(req).email) = {})
                 => /\ \E u \in users' :
                           /\ users' = users \cup {u}
                           /\ u \notin users
                           /\ u.id = RowOf(req).id
                           /\ u.email = RowOf(req).email
                           /\ u.account_type = "user"
                           /\ u.is_active
                           /\ \A v \in users' :
                                  v.email = RowOf(req).email => v = u
                    /\ inflight' # inflight \ {req}
                    /\ UNCHANGED <<unconfirmed, resp>>
              /\ ActivateDelete(req)
                 => /\ resp'.status = 201
                    /\ \A r \in unconfirmed' : r.email # RowOf(req).email
                    /\ unconfirmed' =
                           {r \in unconfirmed : r.email # RowOf(req).email}
                    /\ users' = users]_vars

(* Two registrations of e1 gave rows 1 and 2; the activation with the second
   token has answered 201, the one new account is row 2's, both rows are
   gone and the row of e2 is as it was. *)
C8_Witness ==
    /\ call.fn = "login.activate_user"
    /\ call.args.activation_token = generate_token(2)
    /\ resp.status = 201
    /\ inflight = {}
    /\ activated = {generate_token(2)}
    /\ users = {Superadmin, Account(2, <<"e", "1">>, {}, TRUE, "user")}
    /\ unconfirmed = {new_user_unconfirmed(3, <<"e", "2">>, 0)}

(* An activation request presenting the token is answered in this step,
   with no other activation under way. *)
ActivationAnswered(activation_token) ==
    \/ /\ inflight = {}
       /\ inflight' = {}
       /\ ActivationStarts(activation_token)
    \/ \E req \in inflight :
           /\ inflight = {req}
           /\ inflight' = {}
           /\ req.activation_token = activation_token
           /\ \/ ActivateCheckEmail(req)
              \/ ActivateCreateUser(req)
              \/ ActivateDelete(req)

(* C9: of the activation requests presenting a token, run one after the
   other, the first succeeds while the token's pending row is stored with
   its expire_on in the future; every request presenting a token that has
   already succeeded fails with TokenNotFound or AlreadyConfirmed and
   creates no account. *)
C9_ActivatesExactlyOnce ==
    [][\A tok \in ActivationTokens :
          ActivationAnswered(tok)
          => /\ (\E r \in unconfirmed :
                     r.activation_token = tok /\ r.expire_on > now)
                    => resp'.status = 201
             /\ tok \in activated
                    => /\ resp'.kind \in {"TokenNotFound", "AlreadyConfirmed"}
                       /\ users' = users]_vars

(* C10: an activation whose token matches a pending row past its expire_on
   answers TokenExpired, creates no account and leaves every pending row,
   the matched one included, as it was. *)
C10_ExpiredTokenUntouched ==
    [][\A tok \in ActivationTokens \cup PendingTokens :
          (/\ ActivationStarts(tok)
           /\ \E r \in unconfirmed :
                  r.activation_token = tok /\ r.expire_on < now)
          => /\ resp'.kind = "TokenExpired"
             /\ resp'.status = 400
             /\ users' = users
             /\ unconfirmed' = unconfirmed
             /\ inflight' = inflight]_vars

(* An activation has answered TokenExpired for a token whose row is still
   stored; the row was registered at time 0 and the clock has not moved
   since it passed the row's expire_on. *)
C10_Witness ==
    /\ call.fn = "login.activate_user"
    /\ resp.kind = "TokenExpired"
    /\ \E r \in unconfirmed :
           /\ r.activation_token = call.args.activation_token
           /\ r.created_on = 0
           /\ now = r.expire_on + 1
    /\ inflight = {}
    /\ users = {Superadmin}

(***************************************************************************)
(* SpecActivate: the activations of pending rows already stored, two of e1 *)
(* and one of e2 as three registrations at time 0 leave them, with up to   *)
(* MaxInFlight activations under way while the clock advances.             *)
(***************************************************************************)
InitActivate ==
    /\ users = {Superadmin}
    /\ unconfirmed = {new_user_unconfirmed(1, <<"e", "1">>, 0),
                      new_user_unconfirmed(2, <<"e", "1">>, 0),
                      new_user_unconfirmed(3, <<"e", "2">>, 0)}
    /\ now = 0
    /\ nextId = 4
    /\ issued = {}
    /\ activated = {}
    /\ registering = {}
    /\ strict_schema = FALSE
    /\ inflight = {}
    /\ recover_requests = {}
    /\ migration_codes = {}
    /\ archive = <<>>
    /\ SessionLocal = {"async_sessionmaker"}
    /\ sessions = {}
    /\ database = DeployedDatabase(strict_schema)
    /\ call = NoCall
    /\ resp = NoResponse

NextActivate ==
    \/ \E activation_token \in PendingTokens :
           LoginActivate(activation_token, MaxInFlight)
    \/ \E activation_token \in PendingTokens,
              password \in ActivationPasswords :
           UsersActivate(activation_token, password, MaxInFlight)
    \/ \E req \in inflight : ActivateCheckEmail(req)
    \/ \E req \in inflight : ActivateCreateUser(req)
    \/ \E req \in inflight : ActivateDelete(req)
    \/ Tick

SpecActivate == InitActivate /\ [][NextActivate]_vars

(***************************************************************************)
(* SpecRace: registrations and activations with up to MaxRequests          *)
(* activations under way and the clock standing still.                     *)
(***************************************************************************)
InitRace == Init

NextRace ==
    \/ \E email \in RegEmails : CreateUserByUser(email)
    \/ \E req \in registering : CreateUser(req)
    \/ \E req \in registering : CreateUnconfirmedUser(req)
    \/ \E activation_token \in ActivationTokens :
           LoginActivate(activation_token, MaxRequests)
    \/ \E activation_token \in ActivationTokens,
              password \in ActivationPasswords :
           UsersActivate(activation_token, password, MaxRequests)
    \/ \E req \in inflight : ActivateCheckEmail(req)
    \/ \E req \in inflight : ActivateCreateUser(req)
    \/ \E req \in inflight : ActivateDelete(req)

SpecRace == InitRace /\ [][NextRace]_vars

(* C11: when activation requests interleave at their database calls, no two
   accounts have the same email, and a request that loses (it found its row
   unexpired and yet does not answer 201) answers a 400: AlreadyConfirmed,
   or IntegrityConflict for the constraint violation of its insert. *)
C11_ActivationRaceLoser ==
    /\ \A u, v \in users : u.email = v.email => u = v
    /\ (/\ call.fn \in ActivateFns
        /\ resp.kind \notin {"OK", "TokenNotFound", "TokenExpired",
                              "ValidationError"})
       => /\ resp.status = 400
          /\ resp.kind \in {"AlreadyConfirmed", "IntegrityConflict"}

(***************************************************************************)
(* Registration.                                                           *)
(***************************************************************************)
(* C12: the insert that ends a registration for an email no account has
   answers 201 and adds exactly one pending row for that email, with an id
   and a token no stored row or account has, a password_hash, and
   expire_on = created_on + the activation validity; the rows stored
   before stay as they were. *)
C12_RegistrationAddsRow ==
    [][\A req \in registering :
          (/\ CreateUnconfirmedUser(req)
           /\ get_user_by_email(users, req.email) = {})
          => /\ resp'.status = 201
             /\ \E row \in unconfirmed' :
                    /\ unconfirmed' = unconfirmed \cup {row}
                    /\ row \notin unconfirmed
                    /\ row.email = req.email
                    /\ \A r \in unconfirmed :
                           /\ r.id # row.id
                           /\ r.activation_token # row.activation_token
                    /\ \A u \in users : u.id # row.id
                    /\ row.password_hash # {}
                    /\ row.expire_on = row.created_on + USER_ACTIVATION_TOKEN_EXPIRE]_vars

(* C13: every registration request answers 201 with the same body, whether
   or not an account has its email and also when the account appears
   between the request's lookups; a request that finds an account with its
   email stores no pending row. *)
C13_RegistrationUniform ==
    [][/\ \A email \in RegEmails :
              (/\ CreateUserByUser(email)
               /\ get_user_by_email(users, email) # {})
              => /\ resp' = Response(201, "OK", {}, {})
                 /\ unconfirmed' = unconfirmed
                 /\ registering' = registering
       /\ \A req \in registering :
              (/\ CreateUser(req) \/ CreateUnconfirmedUser(req)
               /\ registering' = registering \ {req})
              => /\ resp' = Response(201, "OK", {}, {})
                 /\ get_user_by_email(users, req.email) # {}
                        => unconfirmed' = unconfirmed]_vars

(***************************************************************************)
(* Password recovery and change: /login/recover, /users/recover,           *)
(* /login/reset-password, /login/change-password, /users/change-password.  *)
(***************************************************************************)
UserRecoverRequest(email, user_id, reset_token, created_on, expire_on) ==
    [email |-> email, user_id |-> user_id, reset_token |-> reset_token,
     created_on |-> created_on, expire_on |-> expire_on]

create_user_recover_request(db_requests, recover_request) ==
    db_requests \cup {recover_request}

get_recover_request_by_reset_token(db_requests, reset_token) ==
    {r \in db_requests : r.reset_token = reset_token}

(* Variant: one row of the email is deleted, the others stay. *)
delete_recover_request_one_row(db_requests, email) ==
    LET rows == {r \in db_requests : r.email = email}
    IN  IF rows = {} THEN db_requests
        ELSE db_requests \ {CHOOSE r \in rows : TRUE}

delete_recover_request_by_email(db_requests, email) ==
    {r \in db_requests : r.email # email}

update_user_password_by_id(db_users, user_id, new_password_hash) ==
    {IF u.id = user_id
     THEN [u EXCEPT !.password_hash = {new_password_hash}]
     ELSE u : u \in db_users}

(* Variant: a request is built whether or not an account has the email. *)
recover_request_any_email(db_users, email, n, time, ttl) ==
    LET db_user == get_user_by_email(db_users, email)
    IN  {UserRecoverRequest(email,
                            IF db_user = {} THEN SUPERADMIN_ID
                            ELSE (CHOOSE u \in db_user : TRUE).id,
                            generate_token(n), time, time + ttl)}

(* recover_user after its SELECT: the request it builds when an account has
   the email (the submitted email, the account's id, a new token, the clock
   of that moment and the clock plus the handler's validity period), none
   otherwise. *)
recover_user_request(db_users, email, n, time, ttl) ==
    {UserRecoverRequest(email, u.id, generate_token(n), time, time + ttl) :
         u \in get_user_by_email(db_users, email)}

(* Variant: the expiry of the row is not looked at. *)
reset_password_check_no_expiry(db_requests, reset_token, time) ==
    IF get_recover_request_by_reset_token(db_requests, reset_token) = {}
    THEN {Response(404, "TokenNotFound", {}, {})}
    ELSE {}

(* POST /login/reset-password up to its first write: the error the request
   ends with, if any. *)
reset_password_check(db_requests, reset_token, time) ==
    LET found == get_recover_request_by_reset_token(db_requests, reset_token)
    IN  IF found = {}
        THEN {Response(404, "TokenNotFound", {}, {})}
        ELSE IF (CHOOSE r \in found : TRUE).expire_on < time
        THEN {Response(400, "TokenExpired", {}, {})}
        ELSE {}

(* A request of the handlers below while it waits on the database: its
   arguments, the call it makes next and what it has read so far. *)
InFlight(rid, fn, args, pc, local) ==
    [rid |-> rid, fn |-> fn, args |-> args, pc |-> pc, local |-> local]

(* The handler returns or raises: the request leaves with its response. *)
End(req, response) ==
    /\ inflight' = inflight \ {req}
    /\ call' = [fn |-> req.fn, args |-> <<>>]
    /\ resp' = response

(* The request goes on to its next database call. *)
Goto(req, pc, local) ==
    /\ inflight' = (inflight \ {req}) \cup
                       {[req EXCEPT !.pc = pc, !.local = local]}
    /\ UNCHANGED <<call, resp>>

(* The account the specifications below start with, as one registration of
   e1 and its activation through /users/activate with the password
   "pw1pw1p " leave it. *)
ResetAccount ==
    Account(1, <<"e", "1">>,
            {get_password_hash(<<"p", "w", "1", "p", "w", "1", "p">>)},
            TRUE, "user")

RecoverEmails == {FIRST_SUPERUSER, <<"e", "1">>, <<"e", "2">>}

ResetTokens == {generate_token(n) : n \in 1..(1 + MaxRows)}

(* One password the validator refuses and one it accepts and strips. *)
NewPasswords ==
    {<<"p", "w", "2">>, <<"p", "w", "2", "p", "w", "2", "p", " ">>}

ResetCall(reset_token) ==
    [fn |-> "reset_password", args |-> [reset_token |-> reset_token]]

ResetInFlight(rid, reset_token, new_password, pc, recover_request) ==
    [rid |-> rid, fn |-> "reset_password", reset_token |-> reset_token,
     new_password |-> new_password, pc |-> pc,
     recover_request |-> recover_request]

InitReset ==
    /\ users = {Superadmin, ResetAccount}
    /\ unconfirmed = {}
    /\ now = 0
    /\ nextId = 2
    /\ issued = {}
    /\ activated = {}
    /\ registering = {}
    /\ strict_schema = TRUE
    /\ inflight = {}
    /\ recover_requests = {}
    /\ migration_codes = {}
    /\ archive = <<>>
    /\ SessionLocal = {"async_sessionmaker"}
    /\ sessions = {}
    /\ database = DeployedDatabase(strict_schema)
    /\ call = NoCall
    /\ resp = NoResponse

(* POST /login/recover and POST /users/recover: the same handler but for
   the setting that gives the validity period of the request. *)
RecoverFns == {"login.recover_user", "users.recover_user"}

reset_token_expire(fn) ==
    IF fn = "login.recover_user" THEN EMAIL_RESET_TOKEN_EXPIRE
    ELSE PASSWORD_RESET_TOKEN_EXPIRE

(* First call of a recovery: the account is looked up by the email; with
   none the handler returns 201 at once, otherwise it builds the request
   with a new token and the clock of that moment. *)
RecoverLookup(fn, email, limit) ==
    /\ Cardinality(inflight) < limit
    /\ FreeSlots # {}
    /\ LET built == recover_user_request(users, email, nextId, now,
                                         reset_token_expire(fn))
       IN  IF built = {}
           THEN /\ call' = [fn |-> fn, args |-> <<>>]
                /\ resp' = Response(201, "OK", {}, {})
                /\ UNCHANGED <<inflight, nextId>>
           ELSE /\ nextId < 2 + MaxRows
                /\ inflight' = inflight \cup
                       {InFlight(FirstFreeSlot, fn, [email |-> email],
                                 "create_user_recover_request", built)}
                /\ nextId' = nextId + 1
                /\ UNCHANGED <<call, resp>>
    /\ UNCHANGED <<users, unconfirmed, now, issued, activated, registering,
                   strict_schema, recover_requests, migration_codes,
                   archive, SessionLocal, sessions, database>>

(* Second call: the request built at the first is inserted and committed,
   then 201. *)
RecoverCommit(req) ==
    /\ req \in inflight
    /\ req.fn \in RecoverFns
    /\ req.pc = "create_user_recover_request"
    /\ recover_requests' = create_user_recover_request(
           recover_requests, CHOOSE r \in req.local : TRUE)
    /\ End(req, Response(201, "OK", {}, {}))
    /\ UNCHANGED <<users, unconfirmed, now, nextId, issued, activated,
                   registering, strict_schema, migration_codes,
                   archive, SessionLocal, sessions, database>>

(* First call of a reset: the row is looked up by its token and its
   expire_on compared with the clock.  new_password is the validated
   password of the body. *)
ResetLookup(reset_token, new_password, limit) ==
    /\ Cardinality(inflight) < limit
    /\ FreeSlots # {}
    /\ LET rid == CHOOSE r \in FreeSlots : \A q \in FreeSlots : r <= q
           error == reset_password_check(recover_requests, reset_token, now)
       IN  IF error # {}
           THEN /\ call' = ResetCall(reset_token)
                /\ resp' = CHOOSE e \in error : TRUE
                /\ UNCHANGED inflight
           ELSE /\ inflight' = inflight \cup
                      {ResetInFlight(rid, reset_token, new_password,
                           "update_user_password_by_id",
                           get_recover_request_by_reset_token(
                               recover_requests, reset_token))}
                /\ UNCHANGED <<call, resp>>
    /\ UNCHANGED <<users, unconfirmed, now, nextId, issued, activated,
                   registering, strict_schema, recover_requests,
                   migration_codes,
                   archive, SessionLocal, sessions,
                   database>>

(* POST /login/reset-password: the body is validated before the handler
   runs; a new password the validator refuses is answered 422. *)
ResetPassword(reset_token, new_password, limit) ==
    IF password_validator(new_password) = {}
    THEN /\ call' = ResetCall(reset_token)
         /\ resp' = Response(422, "ValidationError", {}, {})
         /\ UNCHANGED <<users, unconfirmed, now, nextId, issued, activated,
                        registering, strict_schema, inflight,
                        recover_requests, migration_codes, archive,
                        SessionLocal, sessions, database>>
    ELSE ResetLookup(reset_token,
                     CHOOSE p \in password_validator(new_password) : TRUE,
                     limit)

(* Second call: the account named by the row takes the new hash. *)
ResetUpdatePassword(req) ==
    /\ req \in inflight
    /\ req.fn = "reset_password"
    /\ req.pc = "update_user_password_by_id"
    /\ users' = update_user_password_by_id(
                    users, (CHOOSE r \in req.recover_request : TRUE).user_id,
                    get_password_hash(req.new_password))
    /\ inflight' = (inflight \ {req}) \cup
                       {[req EXCEPT !.pc = "delete_recover_request_by_email"]}
    /\ UNCHANGED <<unconfirmed, now, nextId, issued, activated, registering,
                   strict_schema, recover_requests, migration_codes, call,
                   resp,
                   archive, SessionLocal, sessions,
                   database>>

(* Third call: the rows of the email are deleted, then 201. *)
ResetDelete(req) ==
    /\ req \in inflight
    /\ req.fn = "reset_password"
    /\ req.pc = "delete_recover_request_by_email"
    /\ recover_requests' = delete_recover_request_by_email(
           recover_requests, (CHOOSE r \in req.recover_request : TRUE).email)
    /\ inflight' = inflight \ {req}
    /\ call' = ResetCall(req.reset_token)
    /\ resp' = Response(201, "OK", {}, {})
    /\ activated' = activated \cup {req.reset_token}
    /\ UNCHANGED <<users, unconfirmed, now, nextId, issued, registering,
                   strict_schema, migration_codes,
                   archive, SessionLocal, sessions,
                   database>>

(* POST /login/change-password and POST /users/change-password: the same
   handler under two paths. *)
ChangePasswordFns == {"login.change_password", "users.change_password"}

(* The body is validated before the handler runs (422 on a new password
   the validator refuses); the first call authenticates the email with the
   old password, 403 when that fails. *)
ChangePassword(fn, email, old_password, new_password, limit) ==
    /\ Cardinality(inflight) < limit
    /\ FreeSlots # {}
    /\ LET validated == password_validator(new_password)
           user == authenticate_user(users, email, old_password)
       IN  IF validated = {}
           THEN /\ call' = [fn |-> fn, args |-> <<>>]
                /\ resp' = Response(422, "ValidationError", {}, {})
                /\ UNCHANGED inflight
           ELSE IF user = {}
           THEN /\ call' = [fn |-> fn, args |-> <<>>]
                /\ resp' = Response(403, "OldPasswordInvalid", {}, {})
                /\ UNCHANGED inflight
           ELSE /\ inflight' = inflight \cup
                       {InFlight(FirstFreeSlot, fn,
                                 [new_password |->
                                      CHOOSE p \in validated : TRUE],
                                 "update_user_password_by_id", user)}
                /\ UNCHANGED <<call, resp>>
    /\ UNCHANGED <<users, unconfirmed, now, nextId, issued, activated,
                   registering, strict_schema, recover_requests,
                   migration_codes, archive, SessionLocal, sessions,
                   database>>

(* Second call: the authenticated account takes the new hash, then 201. *)
ChangePasswordUpdate(req) ==
    /\ req \in inflight
    /\ req.fn \in ChangePasswordFns
    /\ req.pc = "update_user_password_by_id"
    /\ users' = update_user_password_by_id(
                    users, (CHOOSE u \in req.local : TRUE).id,
                    get_password_hash(req.args.new_password))
    /\ End(req, Response(201, "OK", {}, {}))
    /\ UNCHANGED <<unconfirmed, now, nextId, issued, activated, registering,
                   strict_schema, recover_requests, migration_codes,
                   archive, SessionLocal, sessions, database>>

OldPasswords ==
    {<<"p", "w", "1", "p", "w", "1", "p">>,
     <<"p", "w", "2", "p", "w", "2", "p">>}

ChangedPasswords ==
    {<<"p", "w", "1">>, <<"p", "w", "1", "p", "w", "1", "p", " ">>}

(* SpecRecover: recoveries through both paths while the clock advances. *)
NextRecover ==
    \/ \E fn \in RecoverFns, email \in RecoverEmails :
           RecoverLookup(fn, email, MaxRequests)
    \/ \E req \in inflight : RecoverCommit(req)
    \/ Tick

SpecRecover == InitReset /\ [][NextRecover]_vars

(* SpecReset: resets and password changes on the requests three recoveries
   at time 0 have stored: two for e1, one through each path, and one for
   the superadmin. *)
StoredRequests ==
    recover_user_request({ResetAccount}, ResetAccount.email, 2, 0,
                         EMAIL_RESET_TOKEN_EXPIRE)
    \cup recover_user_request({ResetAccount}, ResetAccount.email, 3, 0,
                              PASSWORD_RESET_TOKEN_EXPIRE)
    \cup recover_user_request({Superadmin}, FIRST_SUPERUSER, 4, 0,
                              EMAIL_RESET_TOKEN_EXPIRE)

InitResetStored ==
    /\ users = {Superadmin, ResetAccount}
    /\ unconfirmed = {}
    /\ now = 0
    /\ nextId = 5
    /\ issued = {}
    /\ activated = {}
    /\ registering = {}
    /\ strict_schema = TRUE
    /\ inflight = {}
    /\ recover_requests = StoredRequests
    /\ migration_codes = {}
    /\ archive = <<>>
    /\ SessionLocal = {"async_sessionmaker"}
    /\ sessions = {}
    /\ database = DeployedDatabase(strict_schema)
    /\ call = NoCall
    /\ resp = NoResponse

NextReset ==
    \/ \E reset_token \in ResetTokens, new_password \in NewPasswords :
           ResetPassword(reset_token, new_password, MaxInFlight)
    \/ \E req \in inflight : ResetUpdatePassword(req)
    \/ \E req \in inflight : ResetDelete(req)
    \/ \E fn \in ChangePasswordFns, old_password \in OldPasswords,
          new_password \in ChangedPasswords :
           ChangePassword(fn, ResetAccount.email, old_password, new_password,
                          MaxRequests)
    \/ \E req \in inflight : ChangePasswordUpdate(req)
    \/ Tick

SpecReset == InitResetStored /\ [][NextReset]_vars

(* SpecResetRace: recoveries, resets and password changes interleaving at
   their database calls, several resets in flight at a time. *)
NextResetRace ==
    \/ \E fn \in RecoverFns, email \in RecoverEmails :
           RecoverLookup(fn, email, MaxRequests)
    \/ \E req \in inflight : RecoverCommit(req)
    \/ \E reset_token \in ResetTokens, new_password \in NewPasswords :
           ResetPassword(reset_token, new_password, MaxRequests)
    \/ \E req \in inflight : ResetUpdatePassword(req)
    \/ \E req \in inflight : ResetDelete(req)
    \/ \E fn \in ChangePasswordFns, old_password \in OldPasswords,
          new_password \in ChangedPasswords :
           ChangePassword(fn, ResetAccount.email, old_password, new_password,
                          MaxRequests)
    \/ \E req \in inflight : ChangePasswordUpdate(req)
    \/ Tick

SpecResetRace == InitReset /\ [][NextResetRace]_vars

(* C14: a recovery (POST /login/recover) stores a recovery request (the
   submitted email, the id of the account holding it, a token no stored
   request has, an expiry one reset TTL after the call) exactly when an
   account has the submitted email, and answers 201 in both cases. *)
C14_RecoverRequestIffAccount ==
    [][/\ \A email \in RecoverEmails :
              RecoverLookup("login.recover_user", email, MaxRequests) =>
                  LET db_user == {u \in users : u.email = email}
                      started == inflight' \ inflight
                  IN  /\ recover_requests' = recover_requests
                      /\ db_user = {} => /\ resp'.status = 201
                                         /\ resp'.kind = "OK"
                                         /\ started = {}
                      /\ db_user # {} =>
                             \E req \in started : \E r \in req.local :
                                 /\ started = {req}
                                 /\ req.local = {r}
                                 /\ r.email = email
                                 /\ \E u \in db_user : r.user_id = u.id
                                 /\ \A q \in recover_requests :
                                        q.reset_token # r.reset_token
                                 /\ \A q \in inflight :
                                        q.fn \in RecoverFns =>
                                            \A l \in q.local :
                                                l.reset_token # r.reset_token
                                 /\ r.expire_on =
                                        now + EMAIL_RESET_TOKEN_EXPIRE
       /\ \A req \in inflight :
              RecoverCommit(req) =>
                  /\ recover_requests' = recover_requests \cup req.local
                  /\ req.local \cap recover_requests = {}
                  /\ resp'.status = 201
                  /\ resp'.kind = "OK"
      ]_vars

(* A recovery for e1 has stored its request and answered 201, as the one
   for the unknown e2 was answered before it. *)
C14_Witness ==
    /\ \E r \in recover_requests :
           /\ r.email = <<"e", "1">>
           /\ r.user_id = 1
           /\ r.expire_on = r.created_on + EMAIL_RESET_TOKEN_EXPIRE
    /\ call.fn = "login.recover_user"
    /\ resp.status = 201
    /\ inflight = {}

(* C15: a reset whose token matched an unexpired request sets the
   password_hash of the account named by the request's user_id to the hash
   of the new password and changes no other account; it then deletes every
   recovery request whose email is the request's email, those stored since
   the lookup included, and answers 201. *)
C15_ResetSetsPasswordAndDeletes ==
    [][\A req \in inflight :
           LET recover_request == CHOOSE r \in req.recover_request : TRUE
           IN  /\ ResetUpdatePassword(req) =>
                      /\ \A u \in users :
                             IF u.id = recover_request.user_id
                             THEN [u EXCEPT !.password_hash =
                                       {get_password_hash(req.new_password)}]
                                      \in users'
                             ELSE u \in users'
                      /\ Cardinality(users') = Cardinality(users)
                      /\ recover_requests' = recover_requests
               /\ ResetDelete(req) =>
                      /\ recover_requests' =
                             {r \in recover_requests :
                                  r.email # recover_request.email}
                      /\ users' = users
                      /\ resp'.status = 201
      ]_vars

(* One reset consumed one of the two requests of e1: the account has the
   new hash, the superadmin its own, and only the superadmin's request is
   left. *)
C15_Witness ==
    /\ call.fn = "reset_password"
    /\ resp.status = 201
    /\ Cardinality(activated) = 1
    /\ recover_requests = {r \in StoredRequests : r.email = FIRST_SUPERUSER}
    /\ Superadmin \in users
    /\ [ResetAccount EXCEPT !.password_hash =
            {get_password_hash(<<"p", "w", "2", "p", "w", "2", "p">>)}]
           \in users

(* C16: a reset whose token matches no stored recovery request fails with
   TokenNotFound (404); one whose request has expire_on before the clock
   fails with TokenExpired; either way the request ends there, no account
   changes and no recovery request is deleted. *)
C16_ResetRejected ==
    [][\A reset_token \in ResetTokens, new_password \in NewPasswords :
           LET found == {r \in recover_requests :
                             r.reset_token = reset_token}
               untouched == /\ users' = users
                            /\ recover_requests' = recover_requests
                            /\ inflight' = inflight
           IN  (/\ ResetPassword(reset_token, new_password, MaxInFlight)
                /\ password_validator(new_password) # {})
               =>  /\ found = {} =>
                          /\ resp'.status = 404
                          /\ resp'.kind = "TokenNotFound"
                          /\ untouched
                   /\ (\E r \in found : r.expire_on < now) =>
                          /\ resp'.status >= 400
                          /\ resp'.kind = "TokenExpired"
                          /\ untouched
      ]_vars

(* An expired token was just refused: its request is still stored. *)
C16_Witness ==
    /\ call.fn = "reset_password"
    /\ resp.kind = "TokenExpired"
    /\ \E r \in recover_requests :
           /\ r.reset_token = call.args.reset_token
           /\ r.expire_on < now
    /\ ResetAccount \in users

(* C17: a reset token is used once: no reset changes a password or is
   answered 201 with a token that a reset answered 201 has presented
   before. *)
C17_ResetTokenSingleUse ==
    [][\A req \in inflight :
           (ResetUpdatePassword(req) \/ ResetDelete(req)) =>
               req.reset_token \notin activated
      ]_vars

(***************************************************************************)
(* Email migration, the administrators' user update, the superadmin        *)
(* bootstrap and the deletion request.                                     *)
(***************************************************************************)
UserEmailMigrationCode(user_id, new_email, old_email, confirmation_token) ==
    [user_id |-> user_id, new_email |-> new_email, old_email |-> old_email,
     confirmation_token |-> confirmation_token]

create_email_migration_code(db_codes, migration_object) ==
    db_codes \cup {migration_object}

get_email_migration_code_by_token(db_codes, confirmation_token) ==
    {c \in db_codes : c.confirmation_token = confirmation_token}

delete_email_migration_code_by_token(db_codes, confirmation_token) ==
    {c \in db_codes : c.confirmation_token # confirmation_token}

(* UserUpdateAdmin: the fields left out of the request are None. *)
UserUpdateAdmin(email, account_type) ==
    [email |-> email, account_type |-> account_type, name |-> {}]

(* model_dump(exclude_none=True): the value the update gives to a column,
   none when the schema has no such field or the field is None. *)
Dumped(user_update, field) ==
    IF field \in DOMAIN user_update THEN user_update[field] ELSE {}

(* The columns of the user table a user_update can name. *)
UpdateFields == {"email", "account_type", "name"}

(* Variant: the user table has no unique index on email. *)
update_user_conflict_no_index(db_users, user_id, user_update) == FALSE

(* The unique index on user.email refuses the UPDATE when another row
   already has the new email. *)
update_user_conflict(db_users, user_id, user_update) ==
    \E u \in db_users, v \in db_users :
        /\ uuid_str(u.id) = user_id
        /\ v.id # u.id
        /\ Dumped(user_update, "email") = {v.email}

(* What a statement leaves: the exception db.execute raised, if any, and
   the accounts. *)
Executed(raised, db_users) == [raised |-> raised, users |-> db_users]

(* UPDATE user SET <the fields that are not None> WHERE id = user_id.  With
   no field to set the statement has an empty SET list and the database
   rejects it (ProgrammingError); a new email another row has is refused by
   the unique index (IntegrityError).  Nothing is written in either case. *)
update_user(db_users, user_id, user_update) ==
    IF \A field \in UpdateFields : Dumped(user_update, field) = {}
    THEN Executed({"ProgrammingError"}, db_users)
    ELSE IF update_user_conflict(db_users, user_id, user_update)
    THEN Executed({"IntegrityError"}, db_users)
    ELSE Executed({},
        {IF uuid_str(u.id) = user_id
         THEN [u EXCEPT
                 !.email = IF Dumped(user_update, "email") = {} THEN @
                           ELSE CHOOSE e \in user_update.email : TRUE,
                 !.account_type =
                     IF Dumped(user_update, "account_type") = {} THEN @
                     ELSE CHOOSE a \in user_update.account_type : TRUE,
                 !.name = IF Dumped(user_update, "name") = {} THEN @
                          ELSE CHOOSE n \in user_update.name : TRUE]
         ELSE u : u \in db_users})

(* create_and_send_email_migration: a code with a new confirmation token
   is stored for the account and mailed to the new address. *)
create_and_send_email_migration(db_codes, user_id, new_email, old_email, n) ==
    create_email_migration_code(db_codes,
        UserEmailMigrationCode(user_id, new_email, old_email,
                               generate_token(n)))

(* POST /login/migrate-mail by the authenticated account `user`: the
   dependency Depends(is_user()) reads the caller's row, which the handler
   keeps for the rest of the request. *)
MigrateMail(user, new_email) ==
    /\ user \in users
    /\ FreeSlots # {}
    /\ nextId + Cardinality({r \in inflight : r.fn = "migrate_mail"})
           <= MaxRows
    /\ inflight' = inflight \cup
           {InFlight(FirstFreeSlot, "migrate_mail", [new_email |-> new_email],
                     "get_user_by_email", {user})}
    /\ UNCHANGED <<users, unconfirmed, now, nextId, issued, activated,
                   registering, strict_schema, recover_requests,
                   migration_codes, archive, SessionLocal, sessions,
                   database, call, resp>>

(* The handler's first call: is there an account with the new email?  With
   one the handler returns at once; 204 either way. *)
MigrateMailLookup(req) ==
    /\ req \in inflight
    /\ req.fn = "migrate_mail"
    /\ req.pc = "get_user_by_email"
    /\ IF get_user_by_email(users, req.args.new_email) # {}
       THEN End(req, Response(204, "OK", {}, {}))
       ELSE Goto(req, "create_and_send_email_migration", req.local)
    /\ UNCHANGED <<users, unconfirmed, now, nextId, issued, activated,
                   registering, strict_schema, recover_requests,
                   migration_codes, archive, SessionLocal, sessions,
                   database>>

(* Second call: the code is stored for the account the dependency read,
   with the id and the email of that row, and 204 is answered. *)
MigrateMailCreate(req) ==
    /\ req \in inflight
    /\ req.fn = "migrate_mail"
    /\ req.pc = "create_and_send_email_migration"
    /\ LET user == CHOOSE u \in req.local : TRUE
       IN  migration_codes' =
               create_and_send_email_migration(migration_codes, user.id,
                   req.args.new_email, user.email, nextId)
    /\ nextId' = nextId + 1
    /\ End(req, Response(204, "OK", {}, {}))
    /\ UNCHANGED <<users, unconfirmed, now, issued, activated, registering,
                   strict_schema, recover_requests, archive, SessionLocal,
                   sessions, database>>

(* GET /login/migrate-mail-confirm, first call: the code is looked up by
   its token. *)
ConfirmLookup(token) ==
    /\ FreeSlots # {}
    /\ LET migration_object ==
               get_email_migration_code_by_token(migration_codes, token)
           args == [token |-> token]
       IN  IF migration_object = {}
           THEN /\ call' = [fn |-> "migrate_mail_confirm", args |-> <<>>]
                /\ resp' = Response(404, "TokenNotFound", {}, {})
                /\ UNCHANGED inflight
           ELSE /\ inflight' = inflight \cup
                      {InFlight(FirstFreeSlot, "migrate_mail_confirm", args,
                                "get_user_by_email", migration_object)}
                /\ UNCHANGED <<call, resp>>
    /\ UNCHANGED <<users, unconfirmed, now, nextId, issued, activated,
                   registering, strict_schema, recover_requests,
                   migration_codes,
                   archive, SessionLocal, sessions,
                   database>>

(* Second call: an account that already has the new email ends the request
   with 400. *)
ConfirmCheckEmail(req) ==
    /\ req \in inflight
    /\ req.fn = "migrate_mail_confirm"
    /\ req.pc = "get_user_by_email"
    /\ LET migration_object == CHOOSE c \in req.local : TRUE
       IN  IF get_user_by_email(users, migration_object.new_email) # {}
           THEN End(req, Response(400, "EmailAlreadyUsed", {}, {}))
           ELSE Goto(req, "get_user_by_id", req.local)
    /\ UNCHANGED <<users, unconfirmed, now, nextId, issued, activated,
                   registering, strict_schema, recover_requests,
                   migration_codes,
                   archive, SessionLocal, sessions,
                   database>>

(* Third call: the account of the code is read. *)
ConfirmGetUser(req) ==
    /\ req \in inflight
    /\ req.fn = "migrate_mail_confirm"
    /\ req.pc = "get_user_by_id"
    /\ LET migration_object == CHOOSE c \in req.local : TRUE
       IN  IF get_user_by_id(users, uuid_str(migration_object.user_id)) = {}
           THEN End(req, Response(404, "AccountNotFound", {}, {}))
           ELSE Goto(req, "update_user", req.local)
    /\ UNCHANGED <<users, unconfirmed, now, nextId, issued, activated,
                   registering, strict_schema, recover_requests,
                   migration_codes,
                   archive, SessionLocal, sessions,
                   database>>

(* Variant: the code is deleted when the update fails as well. *)
ConfirmUpdate_drops_code(req) ==
    /\ req \in inflight
    /\ req.fn = "migrate_mail_confirm"
    /\ req.pc = "update_user"
    /\ LET migration_object == CHOOSE c \in req.local : TRUE
           user_id == uuid_str(migration_object.user_id)
           user_update == UserUpdateAdmin({migration_object.new_email}, {})
           executed == update_user(users, user_id, user_update)
       IN  IF executed.raised # {}
           THEN /\ End(req, Response(400, "IntegrityConflict", {}, {}))
                /\ migration_codes' =
                       delete_email_migration_code_by_token(migration_codes,
                                                            req.args.token)
                /\ UNCHANGED users
           ELSE /\ users' = executed.users
                /\ Goto(req, "delete_email_migration_code_by_token",
                        req.local)
                /\ UNCHANGED migration_codes
    /\ UNCHANGED <<unconfirmed, now, nextId, issued, activated, registering,
                   strict_schema, recover_requests,
                   archive, SessionLocal, sessions,
                   database>>

(* Fourth call: the account takes the new email and the change is
   committed; an IntegrityError, like any other exception, is rolled back
   and answered 400. *)
ConfirmUpdate(req) ==
    /\ req \in inflight
    /\ req.fn = "migrate_mail_confirm"
    /\ req.pc = "update_user"
    /\ LET migration_object == CHOOSE c \in req.local : TRUE
           user_id == uuid_str(migration_object.user_id)
           user_update == UserUpdateAdmin({migration_object.new_email}, {})
           executed == update_user(users, user_id, user_update)
       IN  IF executed.raised # {}
           THEN /\ End(req, Response(400, "IntegrityConflict", {}, {}))
                /\ UNCHANGED users
           ELSE /\ users' = executed.users
                /\ Goto(req, "delete_email_migration_code_by_token",
                        req.local)
    /\ UNCHANGED <<unconfirmed, now, nextId, issued, activated, registering,
                   strict_schema, recover_requests, migration_codes,
                   archive, SessionLocal, sessions,
                   database>>

(* The line written to data/core/mail-migration-archives.txt:
   f"{user_id},{old_email},{new_email}\n" of the code read by the request. *)
archive_line(migration_object) ==
    uuid_str(migration_object.user_id) \o <<",">> \o
    migration_object.old_email \o <<",">> \o
    migration_object.new_email \o <<"\n">>

(* Fifth call: the code is deleted and the deletion committed. *)
ConfirmDelete(req) ==
    /\ req \in inflight
    /\ req.fn = "migrate_mail_confirm"
    /\ req.pc = "delete_email_migration_code_by_token"
    /\ migration_codes' =
           delete_email_migration_code_by_token(migration_codes,
                                                req.args.token)
    /\ Goto(req, "aiofiles.open", req.local)
    /\ UNCHANGED <<users, unconfirmed, now, nextId, issued, activated,
                   registering, strict_schema, recover_requests, archive,
                   SessionLocal, sessions, database>>

(* Last, the archive file is opened for appending and the line of the code
   the request read is written to it, then 200. *)
ConfirmArchive(req) ==
    /\ req \in inflight
    /\ req.fn = "migrate_mail_confirm"
    /\ req.pc = "aiofiles.open"
    /\ archive' = Append(archive,
                         archive_line(CHOOSE c \in req.local : TRUE))
    /\ End(req, Response(200, "OK", {}, {}))
    /\ activated' = activated \cup {req.args.token}
    /\ UNCHANGED <<users, unconfirmed, now, nextId, issued, registering,
                   strict_schema, recover_requests, migration_codes,
                   SessionLocal, sessions, database>>

(* PATCH /users/{user_id} by the authenticated account `user`: the
   dependency Depends(is_user(AccountType.admin)) reads the caller's row and
   applies the gate to it.  The handler does not read that row again. *)
AdminUpdate(user, user_id, user_update) ==
    /\ user \in users
    /\ FreeSlots # {}
    /\ LET gate == is_user_gate({"admin"}, user)
           args == [user_id |-> user_id, user_update |-> user_update]
       IN  IF gate.status # 200
           THEN /\ call' = [fn |-> "update_user", args |-> <<>>]
                /\ resp' = [gate EXCEPT !.user = {}]
                /\ UNCHANGED inflight
           ELSE /\ inflight' = inflight \cup
                      {InFlight(FirstFreeSlot, "update_user", args,
                                "get_user_by_id", {})}
                /\ UNCHANGED <<call, resp>>
    /\ UNCHANGED <<users, unconfirmed, now, nextId, issued, activated,
                   registering, strict_schema, recover_requests,
                   migration_codes,
                   archive, SessionLocal, sessions,
                   database>>

(* The handler's first call: the account to update is read, 404 without
   one. *)
AdminUpdateLookup(req) ==
    /\ req \in inflight
    /\ req.fn = "update_user"
    /\ req.pc = "get_user_by_id"
    /\ IF get_user_by_id(users, req.args.user_id) = {}
       THEN End(req, Response(404, "AccountNotFound", {}, {}))
       ELSE Goto(req, "update_user", req.local)
    /\ UNCHANGED <<users, unconfirmed, now, nextId, issued, activated,
                   registering, strict_schema, recover_requests,
                   migration_codes,
                   archive, SessionLocal, sessions,
                   database>>

(* The UPDATE and its commit.  The UPDATE is executed outside the handler's
   try block: what it raises (the unique index refusing the email, the
   rejected statement of an update with no field) is not caught, the
   session is closed and nothing is written. *)
AdminUpdateWrite(req) ==
    /\ req \in inflight
    /\ req.fn = "update_user"
    /\ req.pc = "update_user"
    /\ LET executed == update_user(users, req.args.user_id,
                                   req.args.user_update)
       IN  IF executed.raised # {}
           THEN /\ End(req, Response(500, CHOOSE e \in executed.raised : TRUE,
                                     {}, {}))
                /\ UNCHANGED users
           ELSE /\ users' = executed.users
                /\ End(req, Response(204, "OK", {}, {}))
    /\ UNCHANGED <<unconfirmed, now, nextId, issued, activated, registering,
                   strict_schema, recover_requests, migration_codes,
                   archive, SessionLocal, sessions,
                   database>>

(* init_superadmin at the start of a server process, first statement: the
   account with the superadmin email is selected. *)
InitSuperadminSelect ==
    /\ FreeSlots # {}
    /\ \A r \in inflight : r.fn # "init_superadmin"
    /\ IF get_user_by_email(users, FIRST_SUPERUSER) # {}
       THEN /\ call' = [fn |-> "init_superadmin", args |-> <<>>]
            /\ resp' = Response(200, "OK", {}, {})
            /\ UNCHANGED <<inflight, nextId>>
       ELSE /\ nextId <= MaxRows
            /\ nextId' = nextId + 1
            /\ inflight' = inflight \cup
                  {InFlight(FirstFreeSlot, "init_superadmin", <<>>, "commit",
                       {Account(nextId, FIRST_SUPERUSER,
                            {get_password_hash(FIRST_SUPERUSER_PASSWORD)},
                            TRUE, "admin")})}
            /\ UNCHANGED <<call, resp>>
    /\ UNCHANGED <<users, unconfirmed, now, issued, activated, registering,
                   strict_schema, recover_requests, migration_codes,
                   archive, SessionLocal, sessions,
                   database>>

(* Second statement: the new superadmin is added and committed; an
   IntegrityError is rolled back and raised, which ends the start-up. *)
InitSuperadminCommit(req) ==
    /\ req \in inflight
    /\ req.fn = "init_superadmin"
    /\ req.pc = "commit"
    /\ LET user == CHOOSE u \in req.local : TRUE
       IN  IF create_user_conflict(users, user, strict_schema)
           THEN /\ End(req, Response(500, "IntegrityError", {}, {}))
                /\ UNCHANGED users
           ELSE /\ users' = create_user(users, user)
                /\ End(req, Response(200, "OK", {}, {}))
    /\ UNCHANGED <<unconfirmed, now, nextId, issued, activated, registering,
                   strict_schema, recover_requests, migration_codes,
                   archive, SessionLocal, sessions,
                   database>>

(* cruds_users.delete_user: DELETE FROM user WHERE id = user_id *)
delete_user(db_users, user_id) == {u \in db_users : uuid_str(u.id) # user_id}

(* Variant: the request is carried out at once. *)
ask_user_deletion_deletes(db_users, user) ==
    delete_user(db_users, uuid_str(user.id))

(* POST /users/me/ask-deletion by the authenticated account `user`: the
   request is logged.  The handler makes no database call of its own, so
   it runs in the step in which the dependency has read the caller. *)
ask_user_deletion(db_users, user) == db_users

AskUserDeletion(user) ==
    /\ user \in users
    /\ users' = ask_user_deletion(users, user)
    /\ call' = [fn |-> "ask_user_deletion", args |-> <<>>]
    /\ resp' = Response(204, "OK", {}, {})
    /\ UNCHANGED <<unconfirmed, now, nextId, issued, activated, registering,
                   strict_schema, inflight, recover_requests,
                   migration_codes,
                   archive, SessionLocal, sessions,
                   database>>

(* SpecMail: registrations, activations, email migrations, administrators'
   updates, restarts of a server process and deletion requests, interleaved
   at their database calls, on tables that accept a pending row. *)
MailRegEmails == {email_normalizer(<<"U+2003", "E", "2", "U+00A0">>)}

MigrationEmails == {<<" ", "E", "2">>}

UpdateEmails == {FIRST_SUPERUSER, <<" ", "E", "2">>}

UpdateUserIds == {uuid_str(n) : n \in 0..MaxRows}

ConfirmationTokens == {generate_token(n) : n \in 1..MaxRows}

InitMail ==
    /\ users = {Superadmin, ResetAccount}
    /\ unconfirmed = {}
    /\ now = 0
    /\ nextId = 2
    /\ issued = {}
    /\ activated = {}
    /\ registering = {}
    /\ strict_schema = FALSE
    /\ inflight = {}
    /\ recover_requests = {}
    /\ migration_codes = {}
    /\ archive = <<>>
    /\ SessionLocal = {"async_sessionmaker"}
    /\ sessions = {}
    /\ database = DeployedDatabase(strict_schema)
    /\ call = NoCall
    /\ resp = NoResponse

NextMail ==
    \/ \E email \in MailRegEmails : MayStart /\ CreateUserByUser(email)
    \/ \E req \in registering : CreateUser(req)
    \/ \E req \in registering : CreateUnconfirmedUser(req)
    \/ \E activation_token \in ActivationTokens :
           MayStart /\ LoginActivate(activation_token, MaxRequests)
    \/ \E req \in inflight : ActivateCheckEmail(req)
    \/ \E req \in inflight : ActivateCreateUser(req)
    \/ \E req \in inflight : ActivateDelete(req)
    \/ \E user \in users, new_email \in MigrationEmails :
           MayStart /\ MigrateMail(user, new_email)
    \/ \E req \in inflight : MigrateMailLookup(req)
    \/ \E req \in inflight : MigrateMailCreate(req)
    \/ \E token \in ConfirmationTokens : MayStart /\ ConfirmLookup(token)
    \/ \E req \in inflight : ConfirmCheckEmail(req)
    \/ \E req \in inflight : ConfirmGetUser(req)
    \/ \E req \in inflight : ConfirmUpdate(req)
    \/ \E req \in inflight : ConfirmDelete(req)
    \/ \E req \in inflight : ConfirmArchive(req)
    \/ \E user \in users, user_id \in UpdateUserIds, email \in UpdateEmails :
           MayStart /\ AdminUpdate(user, user_id,
                                   UserUpdateAdmin({email}, {}))
    \/ \E req \in inflight : AdminUpdateLookup(req)
    \/ \E req \in inflight : AdminUpdateWrite(req)
    \/ MayStart /\ InitSuperadminSelect
    \/ \E req \in inflight : InitSuperadminCommit(req)
    \/ \E user \in users : AskUserDeletion(user)

SpecMail == InitMail /\ [][NextMail]_vars

UniqueEmails == \A u \in users, v \in users : u.email = v.email => u = v

EmailTaken(email, own_id) ==
    \E v \in users : v.email = email /\ uuid_str(v.id) # own_id

(* C18: no two accounts have the same email, whatever the interleaving of
   registrations, activations, migration confirmations, administrators'
   updates and superadmin bootstraps; a write that would give a second
   account an email already held (the insert of an activation or of the
   bootstrap, the update of a migration confirmation or of an
   administrator) fails and leaves the accounts as they were. *)
C18_UniqueEmails ==
    /\ UniqueEmails
    /\ [][/\ UniqueEmails'
          /\ \A req \in inflight :
                 /\ (/\ ActivateCreateUser(req)
                     /\ \E row \in req.unconfirmed_user, v \in users :
                            v.email = row.email)
                    => users' = users /\ resp'.status >= 400
                 /\ (/\ InitSuperadminCommit(req)
                     /\ \E v \in users : v.email = FIRST_SUPERUSER)
                    => users' = users /\ resp'.status >= 400
                 /\ (/\ ConfirmUpdate(req)
                     /\ \E c \in req.local :
                            EmailTaken(c.new_email, uuid_str(c.user_id)))
                    => users' = users /\ resp'.status >= 400
                 /\ (/\ AdminUpdateWrite(req)
                     /\ \E e \in req.args.user_update.email :
                            EmailTaken(e, req.args.user_id))
                    => users' = users /\ resp'.status >= 400
         ]_vars

(* A migration confirmation has just been refused by the unique index: the
   email of its code went to another account after its own check. *)
C18_Witness ==
    /\ call.fn = "migrate_mail_confirm"
    /\ resp.kind = "IntegrityConflict"
    /\ \E c \in migration_codes, v \in users :
           v.email = c.new_email /\ v.id # c.user_id
    /\ Cardinality(users) = 2

(* C19: the email of every account is its own normalization (lowercased,
   trimmed), whether an activation, a migration confirmation or an
   administrator's update wrote it. *)
C19_NormalizedEmails ==
    \A u \in users : u.email = email_normalizer(u.email)

(* C20: no request removes an account: an id that has an account keeps one
   in every later state; a deletion request changes no table. *)
C20_AccountsStay ==
    [][/\ \A u \in users : \E v \in users' : v.id = u.id
       /\ \A user \in users :
              AskUserDeletion(user) =>
                  UNCHANGED <<users, unconfirmed, recover_requests,
                              migration_codes>>
      ]_vars

(* A deletion request was answered while an account activated after the
   start and the two first accounts are stored. *)
C20_Witness ==
    /\ call.fn = "ask_user_deletion"
    /\ resp.status = 204
    /\ {u.id : u \in users} = {0, 1, 2}

(***************************************************************************)
(* Email migration on its own: two accounts, requests for a change of      *)
(* email, their confirmations step by step, and administrators' updates of *)
(* an email, interleaved.                                                  *)
(***************************************************************************)
MigrateNewEmails == {<<"e", "2">>, <<"e", "3">>}

MigrateUpdateEmails == {<<"e", "2">>}

InitMigrate ==
    /\ users = {Superadmin, ResetAccount}
    /\ unconfirmed = {}
    /\ now = 0
    /\ nextId = 1
    /\ issued = {}
    /\ activated = {}
    /\ registering = {}
    /\ strict_schema = FALSE
    /\ inflight = {}
    /\ recover_requests = {}
    /\ migration_codes = {}
    /\ archive = <<>>
    /\ SessionLocal = {"async_sessionmaker"}
    /\ sessions = {}
    /\ database = DeployedDatabase(strict_schema)
    /\ call = NoCall
    /\ resp = NoResponse

NextMigrate ==
    \/ \E user \in get_user_by_id(users, uuid_str(ResetAccount.id)),
          new_email \in MigrateNewEmails :
           MigrateMail(user, new_email)
    \/ \E req \in inflight : MigrateMailLookup(req)
    \/ \E req \in inflight : MigrateMailCreate(req)
    \/ \E token \in ConfirmationTokens : ConfirmLookup(token)
    \/ \E req \in inflight : ConfirmCheckEmail(req)
    \/ \E req \in inflight : ConfirmGetUser(req)
    \/ \E req \in inflight : ConfirmUpdate(req)
    \/ \E req \in inflight : ConfirmDelete(req)
    \/ \E req \in inflight : ConfirmArchive(req)
    \/ \E user \in get_user_by_id(users, uuid_str(SUPERADMIN_ID)),
          email \in MigrateUpdateEmails :
           AdminUpdate(user, uuid_str(SUPERADMIN_ID),
                       UserUpdateAdmin({email}, {}))
    \/ \E req \in inflight : AdminUpdateLookup(req)
    \/ \E req \in inflight : AdminUpdateWrite(req)

SpecMigrate == InitMigrate /\ [][NextMigrate]_vars

(* The same with one address to migrate to. *)
ConfirmNewEmails == {<<"e", "2">>}

NextConfirm ==
    \/ \E user \in get_user_by_id(users, uuid_str(ResetAccount.id)),
          new_email \in ConfirmNewEmails :
           MigrateMail(user, new_email)
    \/ \E req \in inflight : MigrateMailLookup(req)
    \/ \E req \in inflight : MigrateMailCreate(req)
    \/ \E token \in ConfirmationTokens : ConfirmLookup(token)
    \/ \E req \in inflight : ConfirmCheckEmail(req)
    \/ \E req \in inflight : ConfirmGetUser(req)
    \/ \E req \in inflight : ConfirmUpdate(req)
    \/ \E req \in inflight : ConfirmDelete(req)
    \/ \E req \in inflight : ConfirmArchive(req)
    \/ \E user \in get_user_by_id(users, uuid_str(SUPERADMIN_ID)),
          email \in MigrateUpdateEmails :
           AdminUpdate(user, uuid_str(SUPERADMIN_ID),
                       UserUpdateAdmin({email}, {}))
    \/ \E req \in inflight : AdminUpdateLookup(req)
    \/ \E req \in inflight : AdminUpdateWrite(req)

SpecConfirm == InitMigrate /\ [][NextConfirm]_vars

(* The code a confirmation request has read. *)
CodeOf(req) == CHOOSE c \in req.local : TRUE

(* The update a confirmation request makes. *)
ConfirmUpdateOf(req) == UserUpdateAdmin({CodeOf(req).new_email}, {})

(* The confirmation request applies its change in this step. *)
ConfirmApplies(req) ==
    /\ ConfirmUpdate(req)
    /\ ~update_user_conflict(users, uuid_str(CodeOf(req).user_id),
                             ConfirmUpdateOf(req))

(* The stored data a confirmation may change. *)
MigrationData == <<users, migration_codes, archive>>

(* C21: a confirmation whose token matches a code, with no account owning
   new_email and the account of user_id present, gives that account the
   email new_email, deletes the code and appends exactly one line
   (user_id, old email, new email) to the archive, the old email of the
   line being the email the account had immediately before the change; a
   confirmation with an unknown token is answered 404 and changes
   nothing. *)
C21_ConfirmAppliesAndArchives ==
    [][/\ \A req \in inflight :
              /\ ConfirmApplies(req) =>
                     \E u \in users :
                         /\ u.id = CodeOf(req).user_id
                         /\ u.email = CodeOf(req).old_email
                         /\ users' = (users \ {u}) \cup
                                {[u EXCEPT !.email = CodeOf(req).new_email]}
              /\ ConfirmDelete(req) =>
                     get_email_migration_code_by_token(migration_codes',
                         req.args.token) = {}
              /\ ConfirmArchive(req) =>
                     archive' = Append(archive, archive_line(CodeOf(req)))
       /\ \A token \in ConfirmationTokens :
              (/\ ConfirmLookup(token)
               /\ get_email_migration_code_by_token(migration_codes,
                                                    token) = {})
                  => resp'.status = 404 /\ UNCHANGED MigrationData]_vars

(* The confirmation request fails in this step: at its second call an
   account already has new_email, or its update raises. *)
ConfirmFails(req) ==
    \/ /\ ConfirmCheckEmail(req)
       /\ get_user_by_email(users, CodeOf(req).new_email) # {}
    \/ /\ ConfirmUpdate(req)
       /\ update_user_conflict(users, uuid_str(CodeOf(req).user_id),
                               ConfirmUpdateOf(req))

(* C22: a confirmation that finds an account already owning new_email, or
   whose update raises an integrity violation, is answered 400 and leaves
   the accounts (so the email), the code row and the archive as they
   were. *)
C22_FailedConfirmChangesNothing ==
    [][\A req \in inflight :
           ConfirmFails(req) =>
               /\ resp'.status = 400
               /\ UNCHANGED MigrationData]_vars

(* A confirmation was refused by the unique index at its update, and its
   code is still stored. *)
C22_Witness ==
    /\ call.fn = "migrate_mail_confirm"
    /\ resp.status = 400
    /\ resp.kind = "IntegrityConflict"
    /\ \E c \in migration_codes :
           get_user_by_email(users, c.new_email) # {}

(* C23: GET /users/search and POST /login/test-token require an
   authenticated user: a request whose token does not pass the chain of
   Depends(is_user()) is answered by that chain's rejection, before the
   handler runs. *)
C23_SearchAndTestTokenGated ==
    call.fn \in {"search_users", "test_token"} =>
        LET gate == is_user({}, users, call.args.token, call.args.time)
        IN  gate.status # 200 => resp = gate

(***************************************************************************)
(* Account types: registration and activation, the administrators' PATCH   *)
(* /users/{user_id} with an account_type, PATCH /users/me and POST         *)
(* /users/make-admin.                                                      *)
(***************************************************************************)
(* validators.trailing_spaces_remover *)
trailing_spaces_remover(value) == {strip(v) : v \in value}

(* Variant: the body of PATCH /users/me is taken with all its fields. *)
UserUpdate_whole_body(body) == body

(* UserUpdate, the schema of PATCH /users/me: name only, fields it does not
   declare are ignored. *)
UserUpdate(body) == [name |-> trailing_spaces_remover(body.name)]

(* PATCH /users/me by the authenticated account `user`: the dependency
   Depends(is_user()) reads the caller's row, of which the handler uses the
   id. *)
UpdateCurrentUser(user, body) ==
    /\ user \in users
    /\ FreeSlots # {}
    /\ inflight' = inflight \cup
           {InFlight(FirstFreeSlot, "update_current_user",
                     [user_id |-> uuid_str(user.id),
                      user_update |-> UserUpdate(body)],
                     "update_user", {})}
    /\ UNCHANGED <<users, unconfirmed, now, nextId, issued, activated,
                   registering, strict_schema, recover_requests,
                   migration_codes, archive, SessionLocal, sessions,
                   database, call, resp>>

(* The UPDATE of the caller's row and its commit.  What the UPDATE raises
   is not caught. *)
UpdateCurrentUserWrite(req) ==
    /\ req \in inflight
    /\ req.fn = "update_current_user"
    /\ req.pc = "update_user"
    /\ LET executed == update_user(users, req.args.user_id,
                                   req.args.user_update)
       IN  /\ users' = executed.users
           /\ End(req, IF executed.raised # {}
                       THEN Response(500, CHOOSE e \in executed.raised : TRUE,
                                     {}, {})
                       ELSE Response(204, "OK", {}, {}))
    /\ UNCHANGED <<unconfirmed, now, nextId, issued, activated, registering,
                   strict_schema, recover_requests, migration_codes,
                   archive, SessionLocal, sessions, database>>

(* POST /users/make-admin: 403 unless there is exactly one account; the
   body of the try block is empty. *)
make_admin(db_users) ==
    IF Cardinality(get_users(db_users, {}, {})) # 1
    THEN [users |-> db_users,
          response |-> Response(403, "PrivilegeInsufficient", {}, {})]
    ELSE [users |-> db_users, response |-> Response(200, "OK", {}, {})]

MakeAdmin ==
    /\ users' = make_admin(users).users
    /\ call' = [fn |-> "make_admin", args |-> <<>>]
    /\ resp' = make_admin(users).response
    /\ UNCHANGED <<unconfirmed, now, nextId, issued, activated, registering,
                   strict_schema, inflight, recover_requests,
                   migration_codes, archive, SessionLocal, sessions,
                   database>>

(* The bodies of PATCH /users/{user_id}: an account_type, the lowest or
   the highest. *)
AdminUpdates ==
    {UserUpdateAdmin({}, {account_type}) : account_type \in {"user", "admin"}}

(* The accounts they name: the superadmin and the one the registration
   will make. *)
AdminUserIds == {uuid_str(SUPERADMIN_ID), uuid_str(1)}

MeBodies ==
    {[name |-> {<<"m", " ">>}],
     [name |-> {}, account_type |-> {"admin"}, email |-> {<<"e", "2">>}]}

(* The superadmin, and one registration waiting for its activation. *)
InitAdmin ==
    /\ users = {Superadmin}
    /\ unconfirmed = {new_user_unconfirmed(1, <<"e", "1">>, 0)}
    /\ now = 0
    /\ nextId = 2
    /\ issued = {}
    /\ activated = {}
    /\ registering = {}
    /\ strict_schema = FALSE
    /\ inflight = {}
    /\ recover_requests = {}
    /\ migration_codes = {}
    /\ archive = <<>>
    /\ SessionLocal = {"async_sessionmaker"}
    /\ sessions = {}
    /\ database = DeployedDatabase(strict_schema)
    /\ call = NoCall
    /\ resp = NoResponse

NextAdmin ==
    \/ \E activation_token \in {r.activation_token : r \in unconfirmed} :
           LoginActivate(activation_token, MaxInFlight)
    \/ \E activation_token \in {r.activation_token : r \in unconfirmed},
              password \in ActivationPasswords :
           UsersActivate(activation_token, password, MaxInFlight)
    \/ \E req \in inflight : ActivateCheckEmail(req)
    \/ \E req \in inflight : ActivateCreateUser(req)
    \/ \E req \in inflight : ActivateDelete(req)
    \/ \E user \in users, user_id \in AdminUserIds,
              user_update \in AdminUpdates :
           /\ Cardinality(inflight) < MaxRequests
           /\ AdminUpdate(user, user_id, user_update)
    \/ \E req \in inflight : AdminUpdateLookup(req)
    \/ \E req \in inflight : AdminUpdateWrite(req)
    \/ \E user \in users, body \in MeBodies :
           /\ Cardinality(inflight) < MaxInFlight
           /\ UpdateCurrentUser(user, body)
    \/ \E req \in inflight : UpdateCurrentUserWrite(req)
    \/ MakeAdmin

SpecAdmin == InitAdmin /\ [][NextAdmin]_vars

(* C24: POST /users/make-admin with no account or with two or more is
   answered 403 and changes nothing; with exactly one account it succeeds
   and that account is an administrator afterwards. *)
C24_MakeAdminOnlyUser ==
    [][MakeAdmin =>
           IF Cardinality(users) = 1
           THEN /\ resp'.status = 200
                /\ \A u \in users' : u.account_type = "admin"
                /\ {u.id : u \in users'} = {u.id : u \in users}
           ELSE /\ resp'.status = 403
                /\ UNCHANGED <<users, unconfirmed>>]_vars

(* The account with this id keeps this column over the step. *)
Keeps(u, field) == \E v \in users' : v.id = u.id /\ v[field] = u[field]

(* C29: an account created by activation has account_type user; the
   account_type of an account changes only in the write of PATCH
   /users/{user_id}, a request that got past its gate only for a caller
   whose row, as the dependency read it, was an administrator's; PATCH
   /users/me changes nothing but the name of the caller's own account. *)
C29_AccountTypeOnlyByAdmins ==
    [][/\ \A v \in users' :
              v.id \notin {u.id : u \in users}
                  => /\ v.account_type = "user"
                     /\ \E req \in inflight :
                            /\ ActivateCreateUser(req)
                            /\ v = ActivationUser(req)
       /\ \A u \in users :
              ~Keeps(u, "account_type") =>
                  \E req \in inflight : AdminUpdateWrite(req)
       /\ inflight' \ inflight # {} =>
              \A user \in users, user_id \in AdminUserIds,
                     user_update \in AdminUpdates :
                  AdminUpdate(user, user_id, user_update)
                      => user.account_type = "admin"
       /\ \A req \in inflight :
              UpdateCurrentUserWrite(req) =>
                  \E user \in users :
                      /\ uuid_str(user.id) = req.args.user_id
                      /\ \A u \in users : u.id # user.id => u \in users'
                      /\ \E v \in users' :
                             /\ v = [user EXCEPT !.name = v.name]
                             /\ users' \subseteq users \cup {v}]_vars

(* The account made by the activation has been renamed by its owner and
   made an administrator, the superadmin has been made a user, and the last
   answer is that of an administrators' update. *)
C29_Witness ==
    /\ call.fn = "update_user"
    /\ resp.status = 204
    /\ \E u \in users :
           /\ u.email = <<"e", "1">>
           /\ u.name = <<"m">>
           /\ u.account_type = "admin"
    /\ \E u \in users :
           u.id = SUPERADMIN_ID /\ u.account_type = "user"

(***************************************************************************)
(* Status codes.                                                           *)
(***************************************************************************)
(* The status the taxonomy gives to each kind of failure. *)
TaxonomyStatus ==
    [CredentialsInvalid |-> 401, AccountInactive |-> 400,
     TokenExpired |-> 403, TokenMalformed |-> 403, TokenInvalid |-> 403,
     ScopeDenied |-> 403, PrivilegeInsufficient |-> 403,
     AccountNotFound |-> 404, TokenNotFound |-> 404,
     AlreadyConfirmed |-> 400, IntegrityConflict |-> 400]

(* C25: a failure of one of the taxonomy's kinds is answered with the status
   the taxonomy gives to that kind, whichever endpoint it comes from and
   whether the token is a bearer, an activation or a reset token. *)
C25_TaxonomyStatuses ==
    resp.kind \in DOMAIN TaxonomyStatus
        => resp.status = TaxonomyStatus[resp.kind]

(***************************************************************************)
(* Database sessions: dependencies.get_db around a request.  SessionLocal  *)
(* is the module's session factory (None until init_and_get_db_engine),    *)
(* sessions the sessions that are open.                                    *)
(***************************************************************************)
MaxSessions == 3

(* What a handler's run ends with: a return, an HTTPException, any other
   exception. *)
HandlerOutcomes ==
    {Response(200, "OK", {}, {}), Response(400, "HTTPException", {}, {}),
     Response(500, "Exception", {}, {})}

(* init_and_get_db_engine: engine and session factory are created when
   there is no engine yet. *)
init_and_get_db_engine(session_local) ==
    IF session_local = {} THEN {"async_sessionmaker"} ELSE session_local

(* Variant: a session is left open. *)
db_close_leaks(open_sessions, db) == open_sessions

(* AsyncSession.close *)
db_close(open_sessions, db) == open_sessions \ {db}

InitDb ==
    /\ users = {Superadmin}
    /\ unconfirmed = {}
    /\ now = 0
    /\ nextId = 1
    /\ issued = {}
    /\ activated = {}
    /\ registering = {}
    /\ strict_schema = FALSE
    /\ inflight = {}
    /\ recover_requests = {}
    /\ migration_codes = {}
    /\ archive = <<>>
    /\ SessionLocal = {}
    /\ sessions = {}
    /\ database = DeployedDatabase(strict_schema)
    /\ call = NoCall
    /\ resp = NoResponse

InitAndGetDbEngine ==
    /\ SessionLocal' = init_and_get_db_engine(SessionLocal)
    /\ UNCHANGED <<users, unconfirmed, now, nextId, issued, activated,
                   registering, strict_schema, inflight, recover_requests,
                   migration_codes, archive, sessions, call, resp,
                   database>>

(* A request arrives at a handler that declares Depends(get_db): 500 when
   there is no session factory, otherwise a new session is opened and
   yielded to the handler. *)
GetDb ==
    /\ FreeSlots # {}
    /\ IF SessionLocal = {}
       THEN /\ call' = [fn |-> "get_db", args |-> <<>>]
            /\ resp' = Response(500, "EngineNotInitialized", {}, {})
            /\ UNCHANGED <<inflight, sessions, nextId>>
       ELSE /\ nextId <= MaxSessions
            /\ nextId' = nextId + 1
            /\ sessions' = sessions \cup {nextId}
            /\ inflight' = inflight \cup
                   {InFlight(FirstFreeSlot, "get_db", <<>>, "yield",
                             {nextId})}
            /\ UNCHANGED <<call, resp>>
    /\ UNCHANGED <<users, unconfirmed, now, issued, activated, registering,
                   strict_schema, recover_requests, migration_codes,
                   archive, SessionLocal,
                   database>>

(* A request arrives at a handler that declares Depends(get_unsafe_db):
   the same test of the factory and a session of the same factory, yielded
   inside async with alone, without try and finally. *)
GetUnsafeDb ==
    /\ FreeSlots # {}
    /\ IF SessionLocal = {}
       THEN /\ call' = [fn |-> "get_unsafe_db", args |-> <<>>]
            /\ resp' = Response(500, "EngineNotInitialized", {}, {})
            /\ UNCHANGED <<inflight, sessions, nextId>>
       ELSE /\ nextId <= MaxSessions
            /\ nextId' = nextId + 1
            /\ sessions' = sessions \cup {nextId}
            /\ inflight' = inflight \cup
                   {InFlight(FirstFreeSlot, "get_unsafe_db", <<>>, "yield",
                             {nextId})}
            /\ UNCHANGED <<call, resp>>
    /\ UNCHANGED <<users, unconfirmed, now, issued, activated, registering,
                   strict_schema, recover_requests, migration_codes,
                   archive, SessionLocal,
                   database>>

(* The handler returns or raises: control comes back to the generator
   after its yield, at the finally of get_db, at the exit of async with in
   get_unsafe_db. *)
HandlerEnds(req, outcome) ==
    /\ req \in inflight
    /\ req.fn \in {"get_db", "get_unsafe_db"}
    /\ req.pc = "yield"
    /\ inflight' = (inflight \ {req}) \cup
                       {[req EXCEPT !.pc = IF req.fn = "get_db"
                                           THEN "finally" ELSE "__aexit__",
                                    !.args = outcome]}
    /\ UNCHANGED <<users, unconfirmed, now, nextId, issued, activated,
                   registering, strict_schema, recover_requests,
                   migration_codes, archive, SessionLocal, sessions,
                   call, resp,
                   database>>

(* finally: await db.close().  The request stays in flight: the generator
   is still inside its async with block. *)
GetDbFinally(req) ==
    /\ req \in inflight
    /\ req.fn = "get_db"
    /\ req.pc = "finally"
    /\ sessions' = db_close(sessions, CHOOSE db \in req.local : TRUE)
    /\ inflight' = (inflight \ {req}) \cup {[req EXCEPT !.pc = "__aexit__"]}
    /\ UNCHANGED <<users, unconfirmed, now, nextId, issued, activated,
                   registering, strict_schema, recover_requests,
                   migration_codes, archive, SessionLocal,
                   call, resp,
                   database>>

(* The exit of async with SessionLocal() as db: AsyncSession.__aexit__
   awaits close() on the session once more; the generator is then
   exhausted and the request ends with the handler's outcome. *)
GetDbExit(req) ==
    /\ req \in inflight
    /\ req.fn = "get_db"
    /\ req.pc = "__aexit__"
    /\ sessions' = db_close(sessions, CHOOSE db \in req.local : TRUE)
    /\ inflight' = inflight \ {req}
    /\ call' = [fn |-> "get_db", args |-> <<>>]
    /\ resp' = req.args
    /\ UNCHANGED <<users, unconfirmed, now, nextId, issued, activated,
                   registering, strict_schema, recover_requests,
                   migration_codes, archive, SessionLocal,
                   database>>

(* The exit of async with in get_unsafe_db: the one close of its session,
   after which the request ends with the handler's outcome. *)
GetUnsafeDbExit(req) ==
    /\ req \in inflight
    /\ req.fn = "get_unsafe_db"
    /\ req.pc = "__aexit__"
    /\ sessions' = db_close(sessions, CHOOSE db \in req.local : TRUE)
    /\ inflight' = inflight \ {req}
    /\ call' = [fn |-> "get_unsafe_db", args |-> <<>>]
    /\ resp' = req.args
    /\ UNCHANGED <<users, unconfirmed, now, nextId, issued, activated,
                   registering, strict_schema, recover_requests,
                   migration_codes, archive, SessionLocal,
                   database>>

NextDb ==
    \/ InitAndGetDbEngine
    \/ GetDb
    \/ GetUnsafeDb
    \/ \E req \in inflight, outcome \in HandlerOutcomes :
           HandlerEnds(req, outcome)
    \/ \E req \in inflight : GetDbFinally(req)
    \/ \E req \in inflight : GetDbExit(req)
    \/ \E req \in inflight : GetUnsafeDbExit(req)

SpecDb == InitDb /\ [][NextDb]_vars

(* The requests that hold the session db. *)
Holders(db) == {req \in inflight : db \in req.local}

(* C26: a session is handed to one request only: an open session is held
   by exactly one request in flight and no two requests in flight hold the
   same session, open or closed; the session is open for as long as the
   handler runs; it is closed by the time the request ends, whether the
   handler returned or raised, the first close of the clean-up closing it
   already; when the session factory is not initialised get_db answers 500
   and opens no session.  The first three hold of the sessions of
   get_unsafe_db as well, which run beside those of get_db. *)
C26_SessionPerRequest ==
    /\ [](/\ \A db \in sessions : Cardinality(Holders(db)) = 1
          /\ \A r1, r2 \in inflight :
                 r1 # r2 => r1.local \cap r2.local = {}
          /\ \A req \in inflight :
                 req.pc = "yield" => req.local \subseteq sessions)
    /\ [][/\ (GetDb /\ SessionLocal = {}) =>
                  /\ resp'.status = 500
                  /\ UNCHANGED <<sessions, inflight>>
          /\ (GetDb /\ SessionLocal # {}) =>
                  \E db \in sessions' \ sessions :
                      /\ sessions' = sessions \cup {db}
                      /\ \A req \in inflight : db \notin req.local
                      /\ \E req \in inflight' \ inflight :
                             req.local = {db} /\ req.pc = "yield"
          /\ \A req \in inflight :
                 /\ GetDbFinally(req) => req.local \cap sessions' = {}
                 /\ GetDbExit(req) =>
                        /\ req.local \cap sessions' = {}
                        /\ inflight' = inflight \ {req}
                        /\ resp' \in HandlerOutcomes]_vars

(* A request whose handler raised has ended with its session closed, while
   a second request is between the two closes of its clean-up, its session
   closed already, and a third one's handler runs on an open session. *)
C26_Witness ==
    /\ call.fn = "get_db"
    /\ resp.status = 500
    /\ resp.kind = "Exception"
    /\ \E r1, r2 \in inflight :
           /\ r1.pc = "__aexit__"
           /\ r1.local \cap sessions = {}
           /\ r2.pc = "yield"
           /\ r2.local \subseteq sessions

(***************************************************************************)
(* Start-up: app.update_db_tables on the database it finds.                *)
(***************************************************************************)
(* initialization.drop_db_sync: every table the database holds is dropped,
   alembic_version included. *)
drop_db_sync(db) == Database([t \in ModelTables |-> "none"], {})

get_alembic_current_revision(db) == db.revision

(* Base.metadata.create_all: the tables that do not exist are created with
   the models' schema; the others are left as they are. *)
create_all(db) ==
    [db EXCEPT !.tables = [t \in ModelTables |->
                              IF @[t] = "none" THEN "models" ELSE @[t]]]

stamp_alembic_head(db) == [db EXCEPT !.revision = {"head"}]

(* What the migration scripts build at head: the models' schema, or one
   that differs from it. *)
MigrationScripts == {"models", "migrated"}

(* alembic upgrade head on the connection it is given: the scripts after
   the recorded revision are applied, none when it is head already; scripts
   names the schema they build. *)
run_alembic_upgrade(db, scripts) ==
    IF db.revision = {"head"} THEN db
    ELSE Database([t \in ModelTables |-> scripts], {"head"})

(* What the body of update_db_tables has done when it ends: the branch it
   took, whether it raised, and the database as its connection sees it. *)
Work(db, branch, raised) ==
    [database |-> db, branch |-> branch, raised |-> raised]

(* Variant: each statement is committed as it is executed. *)
sync_engine_begin_autocommit(db, work) == work.database

(* with sync_engine.begin(): commit when the block ends, rollback when it
   raises. *)
sync_engine_begin(db, work) == IF work.raised THEN db ELSE work.database

(* The block of update_db_tables on the database db; fails_at names the
   call that raises, if any. *)
update_db_tables_block(db, drop_db, fails_at, scripts) ==
    LET dropped == IF drop_db THEN drop_db_sync(db) ELSE db
        fresh == get_alembic_current_revision(dropped) = {}
        branch == IF fresh THEN "create_all" ELSE "run_alembic_upgrade"
        created == create_all(dropped)
    IN  IF drop_db /\ fails_at = "drop_db_sync"
        THEN Work(db, "none", TRUE)
        ELSE IF fails_at = "get_alembic_current_revision"
        THEN Work(dropped, "none", TRUE)
        ELSE IF fails_at = branch
        THEN Work(dropped, branch, TRUE)
        ELSE IF fresh /\ fails_at = "stamp_alembic_head"
        THEN Work(created, branch, TRUE)
        ELSE IF fresh
        THEN Work(stamp_alembic_head(created), branch, FALSE)
        ELSE Work(run_alembic_upgrade(dropped, scripts), branch, FALSE)

(* update_db_tables: the database it leaves, and its outcome (an exception
   is logged and raised again). *)
update_db_tables(db, drop_db, fails_at, scripts) ==
    LET work == update_db_tables_block(db, drop_db, fails_at, scripts)
    IN  [database |-> sync_engine_begin(db, work),
         response |-> IF work.raised
                      THEN Response(500, "Exception", {}, {work.branch})
                      ELSE Response(200, "OK", {}, {work.branch})]

FailurePoints ==
    {"none", "drop_db_sync", "get_alembic_current_revision", "create_all",
     "stamp_alembic_head", "run_alembic_upgrade"}

TableSchemas == {"none", "old", "migrated", "models"}

(* The databases a start-up can find: unstamped ones have any tables (none
   of them at the head of the scripts), a database stamped with an earlier
   revision has that revision's tables, a database stamped head is one a
   start-up has left. *)
Databases ==
    {Database(tables, {}) :
         tables \in [ModelTables -> TableSchemas \ {"migrated"}]}
    \cup {Database([t \in ModelTables |-> "old"], {"old"})}
    \cup {DeployedDatabase(strict) : strict \in BOOLEAN}

(* The rows a start-up can find in the database db: accounts when there is
   a user table, a pending row without hash when there is a pending-row
   table that takes one. *)
StoredUsers(db) ==
    IF db.tables["user"] = "none" THEN {{}} ELSE {{}, {Superadmin}}

StoredUnconfirmed(db) ==
    IF db.tables["user_unconfirmed"] = "none" \/ Strict(db) THEN {{}}
    ELSE {{}, {new_user_unconfirmed(1, <<"e", "1">>, 0)}}

InitTables ==
    /\ database \in Databases
    /\ users \in StoredUsers(database)
    /\ unconfirmed \in StoredUnconfirmed(database)
    /\ now = 0
    /\ nextId = 2
    /\ issued = {}
    /\ activated = {}
    /\ registering = {}
    /\ strict_schema = Strict(database)
    /\ inflight = {}
    /\ recover_requests = {}
    /\ migration_codes = {}
    /\ archive = <<>>
    /\ SessionLocal = {}
    /\ sessions = {}
    /\ call = NoCall
    /\ resp = NoResponse

(* init_db's call of update_db_tables at start-up, before any request is
   served. *)
UpdateDbTables(drop_db, fails_at, scripts) ==
    LET result == update_db_tables(database, drop_db, fails_at, scripts)
        dropped == drop_db /\ result.response.status = 200
    IN  /\ database' = result.database
        /\ strict_schema' = Strict(result.database)
        /\ users' = IF dropped THEN {} ELSE users
        /\ unconfirmed' = IF dropped THEN {} ELSE unconfirmed
        /\ recover_requests' = IF dropped THEN {} ELSE recover_requests
        /\ migration_codes' = IF dropped THEN {} ELSE migration_codes
        /\ call' = [fn |-> "update_db_tables",
                    args |-> [drop_db |-> drop_db, fails_at |-> fails_at,
                              scripts |-> scripts]]
        /\ resp' = result.response
        /\ UNCHANGED <<now, nextId, issued, activated, registering,
                       inflight, archive, SessionLocal, sessions>>

NextTables ==
    \E drop_db \in BOOLEAN, fails_at \in FailurePoints,
       scripts \in MigrationScripts :
        UpdateDbTables(drop_db, fails_at, scripts)

SpecTables == InitTables /\ [][NextTables]_vars

(* C27: update_db_tables creates the tables and stamps head exactly when
   the database, after the drop if one is asked for, has no recorded
   revision, which is always so after a drop, and runs the upgrade
   otherwise; after the creation every table of the models exists and the
   revision is head, and after a drop the tables are the models' own and
   hold no row; run again without a drop on the database it has left, it
   changes neither tables nor revision; when a call inside it raises, the
   exception comes out and the database, its rows included, is as it
   was. *)
C27_UpdateDbTables ==
    [][\A drop_db \in BOOLEAN, fails_at \in FailurePoints,
          scripts \in MigrationScripts :
           UpdateDbTables(drop_db, fails_at, scripts) =>
               IF resp'.status = 200
               THEN /\ resp'.data = {"create_all"}
                           <=> (drop_db \/ database.revision = {})
                    /\ resp'.data = {"run_alembic_upgrade"}
                           <=> ~(drop_db \/ database.revision = {})
                    /\ resp'.data = {"create_all"} =>
                           /\ database'.revision = {"head"}
                           /\ \A t \in ModelTables :
                                  database'.tables[t] # "none"
                    /\ drop_db =>
                           /\ database' = DeployedDatabase(TRUE)
                           /\ users' = {} /\ unconfirmed' = {}
                    /\ ~drop_db => UNCHANGED <<users, unconfirmed>>
                    /\ \A again \in MigrationScripts :
                           update_db_tables(database', FALSE, "none", again)
                               = [database |-> database',
                                  response |->
                                      Response(200, "OK", {},
                                               {"run_alembic_upgrade"})]
               ELSE /\ resp'.status = 500
                    /\ UNCHANGED <<database, strict_schema, users,
                                   unconfirmed>>]_vars

(* A start-up with drop_db has dropped the tables, created them again
   from the models and stamped head; the tables hold no row and the
   pending-row table enforces the NOT NULL of the models. *)
C27_Witness ==
    /\ call.fn = "update_db_tables"
    /\ call.args.drop_db
    /\ resp.status = 200
    /\ resp.data = {"create_all"}
    /\ database = DeployedDatabase(TRUE)
    /\ strict_schema
    /\ users = {} /\ unconfirmed = {}

(* C28: in every reachable state, whatever the interleaving of
   registrations, activations and email migrations, no pending
   (unconfirmed) row has the email of an existing account. *)
C28_NoPendingRowForAccount ==
    \A r \in unconfirmed : get_user_by_email(users, r.email) = {}

(***************************************************************************)
(* Password recovery together with email migration: the account of         *)
(* ResetAccount asks for recovery mails, migrates its email and resets its *)
(* password.                                                               *)
(***************************************************************************)
ResetMigrateEmails == {ResetAccount.email, <<"e", "2">>}

NextResetMigrate ==
    \/ \E email \in ResetMigrateEmails :
           RecoverLookup("login.recover_user", email, MaxInFlight)
    \/ \E req \in inflight : RecoverCommit(req)
    \/ \E reset_token \in ResetTokens, new_password \in NewPasswords :
           ResetPassword(reset_token, new_password, MaxInFlight)
    \/ \E req \in inflight : ResetUpdatePassword(req)
    \/ \E req \in inflight : ResetDelete(req)
    \/ \E user \in get_user_by_id(users, uuid_str(ResetAccount.id)) :
           inflight = {} /\ MigrateMail(user, <<"e", "2">>)
    \/ \E req \in inflight : MigrateMailLookup(req)
    \/ \E req \in inflight : MigrateMailCreate(req)
    \/ \E token \in ConfirmationTokens :
           inflight = {} /\ ConfirmLookup(token)
    \/ \E req \in inflight : ConfirmCheckEmail(req)
    \/ \E req \in inflight : ConfirmGetUser(req)
    \/ \E req \in inflight : ConfirmUpdate(req)
    \/ \E req \in inflight : ConfirmDelete(req)
    \/ \E req \in inflight : ConfirmArchive(req)

SpecResetMigrate == InitMigrate /\ [][NextResetMigrate]_vars

(* C30: when a reset has succeeded for an account, no recovery row with
   that account's user_id is left, whether the row was stored under the
   account's present email or under the one it had before an email
   migration. *)
C30_ResetDeletesRowsOfAccount ==
    [][\A req \in inflight :
           ResetDelete(req) =>
               \A r \in recover_requests' :
                   r.user_id # (CHOOSE q \in req.recover_request : TRUE).user_id]_vars

====
